---------------------------- MODULE Spec2Model ----------------------------
(***************************************************************************)
(* Model of the kobalt widget / layout core (kobalt-core, kobalt-widgets). *)
(*                                                                         *)
(* f32 values are modelled as records: a finite value is a fixed-point     *)
(* integer counting fifths of a logical pixel (so that x * 0.6 and         *)
(* x * 1.2 are exact for whole-pixel font sizes), and NaN, +inf and -inf   *)
(* are separate values with the IEEE-754 / Rust semantics of min, max,     *)
(* +, * and partial_cmp.  Rounding and overflow to infinity of finite      *)
(* arithmetic are not modelled.                                            *)
(***************************************************************************)
EXTENDS Integers, Sequences, FiniteSets, TLC

(***************************************************************************)
(* Bounds of the model.                                                    *)
(***************************************************************************)
\* Widgets (Text and Column nodes) alive at the same time.
MaxNodes == 3
\* Field-setter builder calls (color/size/position/alignment/padding) per run.
MaxSetterCalls == 1
\* Pieces of text concatenated into the argument of Color::from_hex.
MaxPieces == 5
\* Widgets constructed in one run of the ownership program.
MaxWidgets == 4
\* observe / add_listener registrations in one run of the notifier program.
MaxListeners == 2

---------------------------------------------------------------------------
(***************************************************************************)
(* f32                                                                     *)
(***************************************************************************)
Fin(n) == [k |-> "fin", v |-> n]
NaN == [k |-> "nan", v |-> 0]
PosInf == [k |-> "inf", v |-> 1]
NegInf == [k |-> "inf", v |-> -1]
\* n logical pixels
Px(n) == Fin(5 * n)

IsNaN(a) == a.k = "nan"
IsFinite(a) == a.k = "fin"

\* a < b on f32: false as soon as one side is NaN
FLt(a, b) ==
    /\ ~IsNaN(a) /\ ~IsNaN(b)
    /\ CASE IsFinite(a) /\ IsFinite(b) -> a.v < b.v
         [] IsFinite(a) -> b.v = 1
         [] IsFinite(b) -> a.v = -1
         [] OTHER -> a.v < b.v
FLe(a, b) == ~IsNaN(a) /\ ~IsNaN(b) /\ (a = b \/ FLt(a, b))
FGt(a, b) == FLt(b, a)

\* f32::partial_cmp: None when one side is NaN
partial_cmp(a, b) ==
    IF IsNaN(a) \/ IsNaN(b) THEN "None"
    ELSE IF FLt(a, b) THEN "Less"
    ELSE IF FLt(b, a) THEN "Greater"
    ELSE "Equal"

\* f32::min / f32::max: when one argument is NaN the other is returned
FMin(a, b) == IF IsNaN(a) THEN b ELSE IF IsNaN(b) THEN a ELSE IF FLt(b, a) THEN b ELSE a
FMax(a, b) == IF IsNaN(a) THEN b ELSE IF IsNaN(b) THEN a ELSE IF FLt(a, b) THEN b ELSE a

\* a + b
FAdd(a, b) ==
    CASE IsNaN(a) \/ IsNaN(b) -> NaN
      [] IsFinite(a) /\ IsFinite(b) -> Fin(a.v + b.v)
      [] IsFinite(a) -> b
      [] IsFinite(b) -> a
      [] OTHER -> IF a.v = b.v THEN a ELSE NaN

\* (n as f32) * a for a count n >= 0: 0 * inf is NaN
FTimesCount(n, a) ==
    CASE IsNaN(a) -> NaN
      [] IsFinite(a) -> Fin(n * a.v)
      [] OTHER -> IF n = 0 THEN NaN ELSE a

\* a * (num/den) for a positive ratio
FTimesRatio(a, num, den) ==
    IF IsFinite(a) THEN Fin((a.v * num) \div den) ELSE a

---------------------------------------------------------------------------
(***************************************************************************)
(* kobalt-core types                                                       *)
(***************************************************************************)
Point_new(x, y) == [x |-> x, y |-> y]
Point_zero == Point_new(Px(0), Px(0))
Size_new(w, h) == [width |-> w, height |-> h]
Rect_new(x, y, w, h) == [x |-> x, y |-> y, width |-> w, height |-> h]

\* Option<Rect>
None == [some |-> FALSE]
Some(r) == [some |-> TRUE, val |-> r]

EdgeInsets_all(v) == [top |-> v, right |-> v, bottom |-> v, left |-> v]
EdgeInsets_zero == EdgeInsets_all(Px(0))

\* String::len(): the UTF-8 byte length of a sequence of code points
Utf8Len(cp) == IF cp < 128 THEN 1 ELSE IF cp < 2048 THEN 2 ELSE IF cp < 65536 THEN 3 ELSE 4

RECURSIVE StrLen(_)
StrLen(s) == IF s = << >> THEN 0 ELSE Utf8Len(Head(s)) + StrLen(Tail(s))

---------------------------------------------------------------------------
(***************************************************************************)
(* Constraints (kobalt-core widget.rs)                                     *)
(***************************************************************************)
\* Faulty variant of tight: the minimum is left at zero, as in loose.
Constraints_tight_min_zero(width, height) ==
    [min_width |-> Px(0), max_width |-> width, min_height |-> Px(0), max_height |-> height]

Constraints_tight(width, height) ==
    [min_width |-> width, max_width |-> width, min_height |-> height, max_height |-> height]

Constraints_loose(max_width, max_height) ==
    [min_width |-> Px(0), max_width |-> max_width,
     min_height |-> Px(0), max_height |-> max_height]

Constraints_unbounded ==
    [min_width |-> Px(0), max_width |-> PosInf, min_height |-> Px(0), max_height |-> PosInf]

\* Faulty variant of constrain: clamps from above only, as Text::layout does.
Constraints_constrain_upper_only(self, size) ==
    Size_new(FMin(size.width, self.max_width), FMin(size.height, self.max_height))

\* size.width.max(min_width).min(max_width), likewise the height
Constraints_constrain(self, size) ==
    Size_new(FMin(FMax(size.width, self.min_width), self.max_width),
             FMin(FMax(size.height, self.min_height), self.max_height))

---------------------------------------------------------------------------
(***************************************************************************)
(* Widgets                                                                 *)
(***************************************************************************)
NoWidget == [type |-> "None"]

Text_new(content) ==
    [type |-> "Text", content |-> content, color |-> "WHITE",
     font_size |-> Px(16), position |-> Point_zero, bounds |-> None]

Text_color(t, color) == [t EXCEPT !.color = color]
Text_size(t, font_size) == [t EXCEPT !.font_size = font_size]
Text_position(t, position) == [t EXCEPT !.position = position]

Column_new ==
    [type |-> "Column", children |-> << >>, position |-> Point_zero,
     main_axis_alignment |-> "Start", cross_axis_alignment |-> "Start",
     padding |-> EdgeInsets_zero]

Column_with_children(children) == [Column_new EXCEPT !.children = children]

\* Faulty variant of Column::add: the child is put in front of the others.
Column_add_front(col, widget) == [col EXCEPT !.children = <<widget>> \o @]

Column_add(col, widget) == [col EXCEPT !.children = Append(@, widget)]
Column_position(col, position) == [col EXCEPT !.position = position]
Column_main_axis_alignment(col, a) == [col EXCEPT !.main_axis_alignment = a]
Column_cross_axis_alignment(col, a) == [col EXCEPT !.cross_axis_alignment = a]
Column_padding(col, p) == [col EXCEPT !.padding = p]

\* number of widgets in the tree rooted at w
RECURSIVE Nodes(_)
RECURSIVE NodesOfSeq(_)
NodesOfSeq(s) == IF s = << >> THEN 0 ELSE Nodes(Head(s)) + NodesOfSeq(Tail(s))
Nodes(w) ==
    CASE w.type = "None" -> 0
      [] w.type = "Text" -> 1
      [] OTHER -> 1 + NodesOfSeq(w.children)

---------------------------------------------------------------------------
(***************************************************************************)
(* Layout                                                                  *)
(***************************************************************************)
\* what a call produces: a Size, or a panic that unwinds the caller
Returned(size) == [kind |-> "size", size |-> size]
Panic == [kind |-> "panic"]
NoCall == [kind |-> "none"]

Text_estimate_size(t) ==
    LET char_width == FTimesRatio(t.font_size, 3, 5)
        width == FTimesCount(StrLen(t.content), char_width)
        height == FTimesRatio(t.font_size, 6, 5)
    IN Size_new(width, height)

\* Faulty variant of Text::layout: the height is not clamped.
Text_layout_height_unclamped(t, constraints) ==
    LET estimated == Text_estimate_size(t)
    IN Returned(Size_new(FMin(estimated.width, constraints.width), estimated.height))

Text_layout(t, constraints) ==
    LET estimated == Text_estimate_size(t)
    IN Returned(Size_new(FMin(estimated.width, constraints.width),
                         FMin(estimated.height, constraints.height)))

\* Iterator::sum::<f32>() over s
RECURSIVE FSum(_)
FSum(s) == IF s = << >> THEN Px(0) ELSE FAdd(FSum(SubSeq(s, 1, Len(s) - 1)), s[Len(s)])

\* Iterator::max_by(|a, b| a.partial_cmp(b).unwrap()) started with acc on s:
\* a later element replaces acc unless acc compares Greater; a None
\* comparison panics in unwrap()
RECURSIVE MaxByFold(_, _)
MaxByFold(acc, s) ==
    IF s = << >> THEN [kind |-> "some", val |-> acc]
    ELSE LET ord == partial_cmp(acc, Head(s))
         IN IF ord = "None" THEN Panic
            ELSE MaxByFold(IF ord = "Greater" THEN acc ELSE Head(s), Tail(s))

MaxBy(s) == IF s = << >> THEN [kind |-> "none"] ELSE MaxByFold(Head(s), Tail(s))

RECURSIVE Widget_layout(_, _)

\* Faulty variant of Column::layout: the padding is added to the result.
Column_layout_padded(col, constraints) ==
    LET outs == [i \in 1..Len(col.children) |-> Widget_layout(col.children[i], constraints)]
        horizontal == FAdd(col.padding.left, col.padding.right)
        vertical == FAdd(col.padding.top, col.padding.bottom)
    IN IF \E i \in 1..Len(outs) : outs[i].kind = "panic" THEN Panic
       ELSE LET total_height == FSum([i \in 1..Len(outs) |-> outs[i].size.height])
                max == MaxBy([i \in 1..Len(outs) |-> outs[i].size.width])
            IN CASE max.kind = "panic" -> Panic
                 [] max.kind = "none" ->
                        Returned(Size_new(horizontal, FAdd(total_height, vertical)))
                 [] OTHER ->
                        Returned(Size_new(FAdd(max.val, horizontal),
                                          FAdd(total_height, vertical)))

Column_layout(col, constraints) ==
    LET outs == [i \in 1..Len(col.children) |-> Widget_layout(col.children[i], constraints)]
    IN IF \E i \in 1..Len(outs) : outs[i].kind = "panic" THEN Panic
       ELSE LET total_height == FSum([i \in 1..Len(outs) |-> outs[i].size.height])
                max == MaxBy([i \in 1..Len(outs) |-> outs[i].size.width])
            IN CASE max.kind = "panic" -> Panic
                 [] max.kind = "none" -> Returned(Size_new(Px(0), total_height))
                 [] OTHER -> Returned(Size_new(max.val, total_height))

Widget_layout(w, constraints) ==
    IF w.type = "Text" THEN Text_layout(w, constraints) ELSE Column_layout(w, constraints)

\* Faulty variant of layout's effect on its receiver: a Text stores the
\* rectangle it was given in its cached bounds.
AfterLayout_caches_bounds(w, constraints) ==
    IF w.type = "Text"
    THEN [w EXCEPT !.bounds = Some(Rect_new(w.position.x, w.position.y,
                                            Text_layout(w, constraints).size.width,
                                            Text_layout(w, constraints).size.height))]
    ELSE w

\* layout takes &self and neither widget has interior mutability: the
\* receiver after the call is the receiver before it
AfterLayout(w, constraints) == w

Text_bounds(t) == t.bounds
\* Faulty variant of Column::bounds: the rectangle has the Column's natural
\* size (its layout under unbounded constraints).
Column_bounds_sized(col) ==
    LET out == Column_layout(col, Size_new(PosInf, PosInf))
    IN IF out.kind = "size"
       THEN Some(Rect_new(col.position.x, col.position.y, out.size.width, out.size.height))
       ELSE Some(Rect_new(col.position.x, col.position.y, Px(0), Px(0)))

Column_bounds(col) == Some(Rect_new(col.position.x, col.position.y, Px(0), Px(0)))
Widget_bounds(w) == IF w.type = "Text" THEN Text_bounds(w) ELSE Column_bounds(w)

---------------------------------------------------------------------------
(***************************************************************************)
(* Rect (kobalt-core types.rs)                                             *)
(***************************************************************************)
\* a - b
FSub(a, b) ==
    CASE IsNaN(a) \/ IsNaN(b) -> NaN
      [] IsFinite(a) /\ IsFinite(b) -> Fin(a.v - b.v)
      [] IsFinite(a) -> IF b.v = 1 THEN NegInf ELSE PosInf
      [] IsFinite(b) -> a
      [] OTHER -> IF a.v = b.v THEN NaN ELSE a

Rect_zero == Rect_new(Px(0), Px(0), Px(0), Px(0))
Rect_right(self) == FAdd(self.x, self.width)
Rect_bottom(self) == FAdd(self.y, self.height)

\* Faulty variant of Rect::intersects: the last edge comparison is missing.
Rect_intersects_three_edges(self, other) ==
    /\ FLt(self.x, Rect_right(other))
    /\ FGt(Rect_right(self), other.x)
    /\ FLt(self.y, Rect_bottom(other))

Rect_intersects(self, other) ==
    /\ FLt(self.x, Rect_right(other))
    /\ FGt(Rect_right(self), other.x)
    /\ FLt(self.y, Rect_bottom(other))
    /\ FGt(Rect_bottom(self), other.y)

Rect_intersection(self, other) ==
    IF ~Rect_intersects(self, other) THEN None
    ELSE LET x == FMax(self.x, other.x)
             y == FMax(self.y, other.y)
             right == FMin(Rect_right(self), Rect_right(other))
             bottom == FMin(Rect_bottom(self), Rect_bottom(other))
         IN Some(Rect_new(x, y, FSub(right, x), FSub(bottom, y)))

Rect_inset(self, amount) ==
    [x |-> FAdd(self.x, amount),
     y |-> FAdd(self.y, amount),
     width |-> FMax(FSub(self.width, FTimesCount(2, amount)), Px(0)),
     height |-> FMax(FSub(self.height, FTimesCount(2, amount)), Px(0))]

---------------------------------------------------------------------------
(***************************************************************************)
(* Color::from_hex (kobalt-core types.rs).  A &str is a sequence of code   *)
(* points; lengths and slice bounds count UTF-8 bytes.                     *)
(***************************************************************************)
\* Result / unwinding
Ok(v) == [kind |-> "ok", val |-> v]
Err == [kind |-> "err"]

\* hex.trim_start_matches('#'): every leading '#' is removed
RECURSIVE trim_start_matches_hash(_)
trim_start_matches_hash(s) ==
    IF s # << >> /\ Head(s) = 35 THEN trim_start_matches_hash(Tail(s)) ELSE s

\* the number of characters of s that end at byte offset n, or -1 when n is
\* not a character boundary of s
RECURSIVE CharsBefore(_, _)
CharsBefore(s, n) ==
    IF n = 0 THEN 0
    ELSE IF s = << >> \/ Utf8Len(Head(s)) > n THEN -1
    ELSE LET rest == CharsBefore(Tail(s), n - Utf8Len(Head(s)))
         IN IF rest < 0 THEN -1 ELSE rest + 1

\* &s[from..to]: panics when a bound is not on a character boundary
StrSlice(s, from, to) ==
    IF CharsBefore(s, from) < 0 \/ CharsBefore(s, to) < 0 THEN Panic
    ELSE Ok(SubSeq(s, CharsBefore(s, from) + 1, CharsBefore(s, to)))

\* char::to_digit(16), -1 for a character that is not a hex digit
HexDigit(cp) ==
    IF cp >= 48 /\ cp <= 57 THEN cp - 48
    ELSE IF cp >= 65 /\ cp <= 70 THEN cp - 55
    ELSE IF cp >= 97 /\ cp <= 102 THEN cp - 87
    ELSE -1

RECURSIVE ParseHexDigits(_, _)
ParseHexDigits(acc, digits) ==
    IF digits = << >> THEN Ok(acc)
    ELSE IF HexDigit(Head(digits)) < 0 THEN Err
    ELSE ParseHexDigits(acc * 16 + HexDigit(Head(digits)), Tail(digits))

\* u8::from_str_radix(src, 16) for src of at most two characters: one
\* leading '+' is skipped, an empty string or a lone sign is an error
u8_from_str_radix(src) ==
    IF src = << >> THEN Err
    ELSE IF Len(src) = 1 /\ Head(src) \in {43, 45} THEN Err
    ELSE IF Head(src) = 43 THEN ParseHexDigits(0, Tail(src))
    ELSE ParseHexDigits(0, src)

\* u8 as f32 / 255.0, kept as an exact fraction
U8AsUnit(n) == [num |-> n, den |-> 255]

Color_from_rgba8(r, g, b, a) ==
    [r |-> U8AsUnit(r), g |-> U8AsUnit(g), b |-> U8AsUnit(b), a |-> U8AsUnit(a)]

\* u8::from_str_radix(&hex[from..to], 16).map_err(..)
HexChannel(hex, from, to) ==
    LET slice == StrSlice(hex, from, to)
    IN IF slice.kind = "panic" THEN Panic ELSE u8_from_str_radix(slice.val)

Color_from_hex(hexstr) ==
    LET hex == trim_start_matches_hash(hexstr)
        r == HexChannel(hex, 0, 2)
        g == HexChannel(hex, 2, 4)
        b == HexChannel(hex, 4, 6)
        a == IF StrLen(hex) = 8 THEN HexChannel(hex, 6, 8) ELSE Ok(255)
    IN IF StrLen(hex) # 6 /\ StrLen(hex) # 8 THEN Err
       ELSE IF r.kind # "ok" THEN r
       ELSE IF g.kind # "ok" THEN g
       ELSE IF b.kind # "ok" THEN b
       ELSE IF a.kind # "ok" THEN a
       ELSE Ok(Color_from_rgba8(r.val, g.val, b.val, a.val))

---------------------------------------------------------------------------
(***************************************************************************)
(* kobalt-render: Renderer                                                 *)
(***************************************************************************)
\* f as u32: the fraction is dropped, NaN gives 0, values out of range
\* saturate. u32::MAX is written -1 (its 32 bits read as an i32): the finite
\* values of the model stay far below it
F32AsU32(a) ==
    CASE IsNaN(a) -> 0
      [] IsFinite(a) -> IF a.v <= 0 THEN 0 ELSE a.v \div 5
      [] OTHER -> IF a.v = 1 THEN -1 ELSE 0

\* n as f32 (the rounding of values above 2^24 is not modelled)
U32AsF32(n) == Px(n)

\* the fields of Renderer that resize touches; config is the
\* SurfaceConfiguration last handed to surface.configure
Renderer_new_with_instance(size) ==
    [size |-> size,
     config |-> [width |-> F32AsU32(size.width), height |-> F32AsU32(size.height)]]

\* Faulty variant of Renderer::resize: every size is taken.
Renderer_resize_unguarded(self, new_size) ==
    [size |-> new_size,
     config |-> [self.config EXCEPT !.width = F32AsU32(new_size.width),
                                    !.height = F32AsU32(new_size.height)]]

Renderer_resize(self, new_size) ==
    IF FGt(new_size.width, Px(0)) /\ FGt(new_size.height, Px(0))
    THEN [size |-> new_size,
          config |-> [self.config EXCEPT !.width = F32AsU32(new_size.width),
                                         !.height = F32AsU32(new_size.height)]]
    ELSE self

---------------------------------------------------------------------------
(***************************************************************************)
(* kobalt-render: RealTextRenderer                                         *)
(***************************************************************************)
\* fontdue's Font::rasterize(ch, font_size) for a finite font size: the
\* bitmap of a glyph is 0.6 em wide and 0.7 em high, white space has an empty
\* bitmap, and the advance follows the font size; bearings are left at 0
IsWhitespace(ch) == ch = 32
Font_rasterize(ch, font_size) ==
    [width |-> IF IsWhitespace(ch) THEN 0 ELSE (font_size.v * 3) \div 25,
     height |-> IF IsWhitespace(ch) THEN 0 ELSE (font_size.v * 7) \div 50,
     xmin |-> 0,
     ymin |-> 0,
     advance_width |-> IF IsWhitespace(ch) THEN FTimesRatio(font_size, 1, 4)
                       ELSE FTimesRatio(font_size, 3, 5)]

\* a wgpu Device as far as its handling of a failed call goes: the default
\* uncaptured-error handler panics, an error scope or a handler installed by
\* the owner of the device takes the error and lets the call return
DefaultDevice == [on_uncaptured_error |-> "panic"]
ScopedDevice == [on_uncaptured_error |-> "report"]

NoBuffer == [some |-> FALSE]

RealTextRenderer_new ==
    [glyph_cache |-> [c \in {} |-> 0],
     atlas_width |-> 1024,
     atlas_height |-> 1024,
     next_x |-> 0,
     next_y |-> 0,
     current_row_height |-> 0,
     vertex_buffer |-> NoBuffer,
     index_buffer |-> NoBuffer,
     num_indices |-> 0,
     panicked |-> FALSE]

\* HashMap::insert
HashMap_insert(map, key, v) ==
    [k \in DOMAIN map \cup {key} |-> IF k = key THEN v ELSE map[k]]

\* Queue::write_texture fails when the copy overruns the texture
WriteOverruns(self, x, y, metrics) ==
    /\ metrics.width * metrics.height > 0
    /\ \/ x + metrics.width > self.atlas_width
       \/ y + metrics.height > self.atlas_height

\* where rasterize_glyph puts a glyph that is not cached: the row is left
\* when the glyph does not fit in what remains of it
Rasterize_wraps(self, metrics) == self.next_x + metrics.width > self.atlas_width
Rasterize_x(self, metrics) == IF Rasterize_wraps(self, metrics) THEN 0 ELSE self.next_x

Rasterize_y(self, metrics) ==
    IF Rasterize_wraps(self, metrics) THEN self.next_y + self.current_row_height
    ELSE self.next_y

Rasterize_row_height(self, metrics) ==
    LET row == IF Rasterize_wraps(self, metrics) THEN 0 ELSE self.current_row_height
    IN IF row < metrics.height THEN metrics.height ELSE row

CacheHit(self, ch, font_size) == ch \in DOMAIN self.glyph_cache

\* rasterize_glyph: the renderer after the call. The field panicked is set when
\* write_texture failed on a device that panics: the unwinding leaves next_x, next_y and
\* current_row_height as the call had set them and the cache without the glyph
rasterize_glyph(self, device, ch, font_size) ==
    IF CacheHit(self, ch, font_size) THEN self
    ELSE LET metrics == Font_rasterize(ch, font_size)
             x == Rasterize_x(self, metrics)
             y == Rasterize_y(self, metrics)
             placed == [self EXCEPT !.next_x = x, !.next_y = y,
                                    !.current_row_height = Rasterize_row_height(self, metrics)]
             glyph_info == [atlas_x |-> x, atlas_y |-> y,
                            width |-> metrics.width, height |-> metrics.height,
                            bearing_x |-> metrics.xmin, bearing_y |-> metrics.ymin,
                            advance |-> metrics.advance_width]
         IN IF WriteOverruns(self, x, y, metrics) /\ device.on_uncaptured_error = "panic"
            THEN [placed EXCEPT !.panicked = TRUE]
            ELSE [placed EXCEPT !.next_x = x + metrics.width,
                                !.glyph_cache = HashMap_insert(@, ch, glyph_info)]

\* (v / extent) * 2.0 - 1.0 and 1.0 - (v / extent) * 2.0, kept as the pair
\* they are computed from
Ndc(v, extent) == [of |-> v, extent |-> extent]
\* n as f32 / extent as f32
TexCoord(n, extent) == [num |-> n, den |-> extent]

\* the four TextVertex values pushed for one glyph
GlyphQuad(glyph, cursor_x, cursor_y, color, screen_width, screen_height, self) ==
    LET x == FAdd(cursor_x, Px(glyph.bearing_x))
        y == FSub(cursor_y, Px(glyph.bearing_y))
    IN [x0 |-> Ndc(x, screen_width),
        y0 |-> Ndc(y, screen_height),
        x1 |-> Ndc(FAdd(x, Px(glyph.width)), screen_width),
        y1 |-> Ndc(FAdd(y, Px(glyph.height)), screen_height),
        u0 |-> TexCoord(glyph.atlas_x, self.atlas_width),
        v0 |-> TexCoord(glyph.atlas_y, self.atlas_height),
        u1 |-> TexCoord(glyph.atlas_x + glyph.width, self.atlas_width),
        v1 |-> TexCoord(glyph.atlas_y + glyph.height, self.atlas_height),
        color |-> color]

\* the loop of prepare_text over text.chars(): run is
\* [self, cursor_x, vertices, glyphs]; glyphs keeps what rasterize_glyph
\* returned for each character
RECURSIVE PrepareChars(_, _, _, _, _, _, _, _)
PrepareChars(run, device, chars, cursor_y, font_size, color, screen_width, screen_height) ==
    IF chars = << >> \/ run.self.panicked THEN run
    ELSE LET ch == Head(chars)
             self == rasterize_glyph(run.self, device, ch, font_size)
         IN IF self.panicked THEN [run EXCEPT !.self = self]
            ELSE LET glyph == self.glyph_cache[ch]
                     quad == GlyphQuad(glyph, run.cursor_x, cursor_y, color,
                                       screen_width, screen_height, self)
                     next == [self |-> self,
                              cursor_x |-> FAdd(run.cursor_x, glyph.advance),
                              vertices |-> IF glyph.width > 0 /\ glyph.height > 0
                                           THEN Append(run.vertices, quad)
                                           ELSE run.vertices,
                              glyphs |-> Append(run.glyphs, glyph)]
                 IN PrepareChars(next, device, Tail(chars), cursor_y, font_size, color,
                                 screen_width, screen_height)

\* what prepare_text built: the run of its loop
PrepareRun(self, device, text, position, font_size, color, screen_width, screen_height) ==
    PrepareChars([self |-> self, cursor_x |-> position.x, vertices |-> << >>,
                  glyphs |-> << >>],
                 device, text, position.y, font_size, color, screen_width, screen_height)

\* the end of prepare_text: the buffers are replaced by those of this text
StoreBuffers(self, vertices) ==
    IF vertices # << >>
    THEN [self EXCEPT !.vertex_buffer = Some(vertices),
                      !.index_buffer = Some(6 * Len(vertices)),
                      !.num_indices = 6 * Len(vertices)]
    ELSE self

\* prepare_text after its loop
PrepareEnd(run) ==
    IF run.self.panicked THEN run.self ELSE StoreBuffers(run.self, run.vertices)

prepare_text(self, device, text, position, font_size, color, screen_width, screen_height) ==
    PrepareEnd(PrepareRun(self, device, text, position, font_size, color,
                          screen_width, screen_height))

\* render: the quads drawn into the render pass
render(self) ==
    IF self.num_indices > 0 /\ self.vertex_buffer.some /\ self.index_buffer.some
    THEN self.vertex_buffer.val
    ELSE << >>

---------------------------------------------------------------------------
(***************************************************************************)
(* kobalt-runtime: the walk over the home widget                           *)
(***************************************************************************)
\* collect_widgets: the Text widgets of the tree, depth first; the
\* calls of Widget methods made on the way are kept by WidgetCalls
RECURSIVE collect_widgets(_)
RECURSIVE collect_children(_)
collect_children(children) ==
    IF children = << >> THEN << >>
    ELSE collect_widgets(Head(children)) \o collect_children(Tail(children))
collect_widgets(widget) ==
    CASE widget.type = "Text" -> <<widget>>
      [] widget.type = "Column" -> collect_children(widget.children)
      [] OTHER -> << >>

\* the Widget methods and fields the RedrawRequested handler uses on the tree
RedrawCalls(widget) ==
    {"widget_type"}
    \cup (IF widget.type = "Column" THEN {"children"} ELSE {})
    \cup (IF collect_widgets(widget) # << >>
          THEN {"content", "position", "font_size", "color"} ELSE {})

---------------------------------------------------------------------------
(***************************************************************************)
(* State: a program that builds widget trees in two local variables,       *)
(* moves widgets into Columns and calls layout on what it holds.           *)
(***************************************************************************)
VARIABLES
    slot,         \* slot[i]: the widget owned by local variable i, or NoWidget
    ran,          \* ran[i]: layout has been called on the widget in slot i
    setterCalls,  \* field-setter builder calls made so far
    lastTarget,   \* the slot of the most recent layout call, 0 when none
    lastC,        \* the constraints of the most recent layout call
    outcome,      \* what the most recent layout call produced
    aborted,      \* a panic has unwound the program
    cons,         \* the Constraints value the program holds
    ctor,         \* how cons was made: the constructor and its arguments
    csize,        \* the Size last passed to cons.constrain
    cresult,      \* what that call returned
    cstep,        \* "new", "constrained", or "reconstrained" (constrain applied to its own result)
    rectA,        \* the two Rect values the geometry program holds
    rectB,
    hit,          \* hit[d]: what intersects returned, d = "AB" for rectA.intersects(&rectB)
    isect,        \* isect[d]: what intersection returned
    inset,        \* the amount and the result of rectA.inset(amount)
    hex,          \* the &str the color program has put together
    typed,        \* the number of pieces hex was put together from
    parsed,       \* what Color::from_hex(hex) produced
    heap,         \* heap[w]: the widget allocated as number w (children are numbers), or NoWidget
    place,        \* place[w]: "unborn", "local" (owned by a variable), "child", "dropped"
    btext,        \* the Text the builder-chain program holds, or NoWidget
    bcol,         \* the Column the builder-chain program holds, or NoWidget
    ntype,        \* "None", "LiveData", "ValueNotifier" or "ChangeNotifier"
    handle,       \* handle[h]: the Arc pointers of notifier value h, or NoHandle
    value,        \* value[c]: the T inside Arc<Mutex<T>> number c
    listeners,    \* listeners[c]: the Vec inside Arc<Mutex<Vec<Listener>>> number c
    valueLock,    \* valueLock[c]: the thread holding the value mutex, or "free"
    listLock,     \* listLock[c]: the thread holding the listener-list mutex, or "free"
    stack,        \* stack[t]: the notifier calls thread t is inside, outermost first
    calls,        \* calls[t]: listener invocations made by t's current outermost call
    ret,          \* ret[t]: what the call t completed last returned
    registered,   \* listeners registered so far (the next listener is registered + 1)
    live,         \* the listeners registered since the most recent clear
    home,         \* KobaltApp.home: the widget given to home(), or NoWidget
    renderer,     \* the Renderer of the window (its size and config), None before it is created
    asked,        \* the Size last passed to Renderer::resize, None before the first call
    text_renderer,\* the RealTextRenderer, None before it is created
    drawn,        \* the prepare_text calls of the most recent frame, in order
    frame,        \* what the most recent render pass drew
    trace,        \* since the most recent Resized event: the Widget methods used on home
    delivered,    \* delivered[id]: the value observer id stored when it was last invoked
    before,       \* before[t]: the observers registered when t called the set / update it is in
    told          \* told[t]: the pairs <<observer, value>> of the set / update t is in

widgetVars == <<slot, ran, setterCalls, lastTarget, lastC, outcome, aborted>>
constraintVars == <<cons, ctor, csize, cresult, cstep>>
rectVars == <<rectA, rectB, hit, isect, inset>>
colorVars == <<hex, typed, parsed>>
ownerVars == <<heap, place>>
chainVars == <<btext, bcol>>
notifierVars ==
    <<ntype, handle, value, listeners, valueLock, listLock, stack, calls, ret,
      registered, live>>
rendererVars == <<renderer, asked>>
textVars == <<text_renderer, drawn, frame>>
runtimeVars == <<home, trace>>
renderVars == <<rendererVars, textVars, runtimeVars>>
liveVars == <<delivered, before, told>>
vars ==
    <<widgetVars, constraintVars, rectVars, colorVars, ownerVars, chainVars,
      notifierVars, renderVars, liveVars>>
\* what the widget program leaves alone
notWidgetVars ==
    <<constraintVars, rectVars, colorVars, ownerVars, chainVars, notifierVars, renderVars, liveVars>>
\* what the constraints program leaves alone
notConstraintVars ==
    <<widgetVars, rectVars, colorVars, ownerVars, chainVars, notifierVars, renderVars, liveVars>>
\* what the geometry program leaves alone
notRectVars ==
    <<widgetVars, constraintVars, colorVars, ownerVars, chainVars, notifierVars, renderVars, liveVars>>
\* what the color program leaves alone
notColorVars ==
    <<widgetVars, constraintVars, rectVars, ownerVars, chainVars, notifierVars, renderVars, liveVars>>
\* what the ownership program leaves alone
notOwnerVars ==
    <<widgetVars, constraintVars, rectVars, colorVars, chainVars, notifierVars, renderVars, liveVars>>
\* what the builder-chain program leaves alone
notChainVars ==
    <<widgetVars, constraintVars, rectVars, colorVars, ownerVars, notifierVars, renderVars, liveVars>>
\* what the programs of the renderer, the text renderer and the runtime leave alone
notRenderVars ==
    <<widgetVars, constraintVars, rectVars, colorVars, ownerVars, chainVars, notifierVars,
      liveVars>>
\* what the notifier program leaves alone
notNotifierVars ==
    <<widgetVars, constraintVars, rectVars, colorVars, ownerVars, chainVars, renderVars,
      liveVars>>
\* what the concurrent LiveData program leaves alone besides the notifier
notLiveVars ==
    <<widgetVars, constraintVars, rectVars, colorVars, ownerVars, chainVars, renderVars>>

Slots == {1, 2}

\* inputs
Contents == { << >>, <<72, 101, 108, 108, 111>>, <<233>> }
\* inputs of the setters (the constructors give WHITE, 16 px, the origin,
\* Start, Start and zero insets); Text::with_style is not used
FontSizes == { Px(20), PosInf, NaN }
Colors == { "RED" }
Points == { Point_new(Px(10), Px(20)) }
MainAxisAlignments == { "Center" }
CrossAxisAlignments == { "Stretch" }
Paddings == { EdgeInsets_all(Px(8)) }
ConstraintSizes ==
    { Size_new(Px(1000), Px(1000)), Size_new(Px(5), Px(5)), Size_new(Px(0), Px(10)),
      Size_new(Px(-5), Px(-5)), Size_new(NaN, Px(0)), Size_new(PosInf, PosInf) }

TotalNodes == Nodes(slot[1]) + Nodes(slot[2])

WidgetInit ==
    /\ slot = [i \in Slots |-> NoWidget]
    /\ ran = [i \in Slots |-> FALSE]
    /\ setterCalls = 0
    /\ lastTarget = 0
    /\ lastC = Size_new(Px(0), Px(0))
    /\ outcome = NoCall
    /\ aborted = FALSE

\* let cons = Constraints::unbounded()
ConstraintsInit ==
    /\ cons = Constraints_unbounded
    /\ ctor = [name |-> "unbounded"]
    /\ csize = Size_new(Px(0), Px(0))
    /\ cresult = Size_new(Px(0), Px(0))
    /\ cstep = "new"

\* a call that returned v
Answered(v) == [kind |-> "value", value |-> v]

\* "AB": the method is called on rectA with &rectB, "BA": on rectB with &rectA
Directions == { "AB", "BA" }

\* let a = Rect::zero(); let b = Rect::zero()
RectInit ==
    /\ rectA = Rect_zero
    /\ rectB = Rect_zero
    /\ hit = [d \in Directions |-> NoCall]
    /\ isect = [d \in Directions |-> NoCall]
    /\ inset = NoCall

\* let hex = String::new()
ColorInit ==
    /\ hex = << >>
    /\ typed = 0
    /\ parsed = NoCall

WidgetIds == 1..MaxWidgets

OwnerInit ==
    /\ heap = [w \in WidgetIds |-> NoWidget]
    /\ place = [w \in WidgetIds |-> "unborn"]

ChainInit ==
    /\ btext = NoWidget
    /\ bcol = NoWidget

\* The threads of the program; a ValueNotifier stays on the thread that made it.
Threads == { "main", "worker" }
\* The notifier values of the program: the one from new() and a clone of it.
Handles == { "first", "clone" }
\* The Arc allocations a notifier value can point to.
Cells == { 1, 2 }
\* T: the values a notifier holds; new(initial_value) is called with InitialValue
Values == { 0, 1 }
InitialValue == CHOOSE v \in Values : \A u \in Values : v <= u
NoHandle == [value |-> 0, listeners |-> 0]
\* update(|v| ..): the closures the program passes; Unchanged stands in where
\* a call takes no closure
Unchanged == [x \in Values |-> x]
Updaters == { [x \in Values |-> IF x = InitialValue THEN 1 ELSE InitialValue] }
NoReturn == [op |-> "none", h |-> "first", val |-> InitialValue, old |-> InitialValue, f |-> Unchanged]

NotifierInit ==
    /\ ntype = "None"
    /\ handle = [h \in Handles |-> NoHandle]
    /\ value = [c \in Cells |-> InitialValue]
    /\ listeners = [c \in Cells |-> << >>]
    /\ valueLock = [c \in Cells |-> "free"]
    /\ listLock = [c \in Cells |-> "free"]
    /\ stack = [t \in Threads |-> << >>]
    /\ calls = [t \in Threads |-> << >>]
    /\ ret = [t \in Threads |-> NoReturn]
    /\ registered = 0
    /\ live = {}

\* nothing has been presented yet
NoFrame == [presented |-> FALSE, quads |-> << >>]
\* no Resized event has been handled yet
NoTrace == [resized |-> FALSE, calls |-> {}, presented |-> FALSE]

RenderInit ==
    /\ home = NoWidget
    /\ renderer = None
    /\ asked = None
    /\ text_renderer = None
    /\ drawn = << >>
    /\ frame = NoFrame
    /\ trace = NoTrace

\* the observers there can be: each thread may be about to register one more
\* when the last but one is registered
ObserverIds == 1..(MaxListeners + Cardinality(Threads) - 1)

\* the observers of the concurrent program store the value they are given
LiveInit ==
    /\ delivered = [id \in ObserverIds |-> None]
    /\ before = [t \in Threads |-> {}]
    /\ told = [t \in Threads |-> {}]

Init ==
    /\ WidgetInit /\ ConstraintsInit /\ RectInit /\ ColorInit
    /\ OwnerInit /\ ChainInit /\ NotifierInit /\ RenderInit /\ LiveInit

\* a builder step: the value of the last layout call is gone
Built(i, w) ==
    /\ slot' = [slot EXCEPT ![i] = w]
    /\ lastTarget' = 0
    /\ lastC' = Size_new(Px(0), Px(0))
    /\ outcome' = NoCall
    /\ UNCHANGED <<aborted, notWidgetVars>>

\* let slot_i = Text::new(content)
NewText(i, content) ==
    /\ ~aborted /\ slot[i] = NoWidget /\ TotalNodes < MaxNodes
    /\ Built(i, Text_new(content))
    /\ ran' = [ran EXCEPT ![i] = FALSE]
    /\ UNCHANGED setterCalls

\* let slot_i = Column::new()
NewColumn(i) ==
    /\ ~aborted /\ slot[i] = NoWidget /\ TotalNodes < MaxNodes
    /\ Built(i, Column_new)
    /\ ran' = [ran EXCEPT ![i] = FALSE]
    /\ UNCHANGED setterCalls

\* let slot_i = Column::with_children(vec![Box::new(slot_i)])
WrapInColumn(i) ==
    /\ ~aborted /\ slot[i] # NoWidget /\ TotalNodes < MaxNodes
    /\ Built(i, Column_with_children(<<slot[i]>>))
    /\ ran' = [ran EXCEPT ![i] = FALSE]
    /\ UNCHANGED setterCalls

\* let slot_i = slot_i.add(slot_j): slot_j is moved into the Column
Add(i, j) ==
    /\ ~aborted /\ i # j
    /\ slot[i].type = "Column" /\ slot[j] # NoWidget
    /\ slot' = [slot EXCEPT ![i] = Column_add(slot[i], slot[j]), ![j] = NoWidget]
    /\ ran' = [ran EXCEPT ![j] = FALSE]
    /\ lastTarget' = 0
    /\ lastC' = Size_new(Px(0), Px(0))
    /\ outcome' = NoCall
    /\ UNCHANGED <<setterCalls, aborted, notWidgetVars>>

\* drop(slot_i)
Drop(i) ==
    /\ ~aborted /\ slot[i] # NoWidget
    /\ Built(i, NoWidget)
    /\ ran' = [ran EXCEPT ![i] = FALSE]
    /\ UNCHANGED setterCalls

Setter(i, w) ==
    /\ ~aborted /\ setterCalls < MaxSetterCalls
    /\ setterCalls' = setterCalls + 1
    /\ Built(i, w)
    /\ UNCHANGED ran

TextSetColor(i, color) == slot[i].type = "Text" /\ Setter(i, Text_color(slot[i], color))
TextSetSize(i, size) == slot[i].type = "Text" /\ Setter(i, Text_size(slot[i], size))
TextSetPosition(i, p) == slot[i].type = "Text" /\ Setter(i, Text_position(slot[i], p))
ColumnSetPosition(i, p) == slot[i].type = "Column" /\ Setter(i, Column_position(slot[i], p))
ColumnSetMainAxis(i, a) ==
    slot[i].type = "Column" /\ Setter(i, Column_main_axis_alignment(slot[i], a))
ColumnSetCrossAxis(i, a) ==
    slot[i].type = "Column" /\ Setter(i, Column_cross_axis_alignment(slot[i], a))
ColumnSetPadding(i, p) == slot[i].type = "Column" /\ Setter(i, Column_padding(slot[i], p))

\* The program lays out the widget it has finished building: the one in
\* slot Home, once the other local variable has been moved or dropped.
Home == CHOOSE i \in Slots : \A j \in Slots : i <= j

\* slot_Home.layout(c)
Layout(c) ==
    /\ ~aborted /\ slot[Home] # NoWidget
    /\ \A j \in Slots \ {Home} : slot[j] = NoWidget
    /\ LET out == Widget_layout(slot[Home], c)
       IN /\ outcome' = out
          /\ aborted' = (out.kind = "panic")
    /\ slot' = [slot EXCEPT ![Home] = AfterLayout(slot[Home], c)]
    /\ ran' = [ran EXCEPT ![Home] = TRUE]
    /\ lastTarget' = Home
    /\ lastC' = c
    /\ UNCHANGED <<setterCalls, notWidgetVars>>

Next ==
    \/ \E i \in Slots, content \in Contents : NewText(i, content)
    \/ \E i \in Slots : NewColumn(i)
    \/ \E i \in Slots : WrapInColumn(i)
    \/ \E i, j \in Slots : Add(i, j)
    \/ \E i \in Slots : Drop(i)
    \/ \E i \in Slots, color \in Colors : TextSetColor(i, color)
    \/ \E i \in Slots, size \in FontSizes : TextSetSize(i, size)
    \/ \E i \in Slots, p \in Points : TextSetPosition(i, p)
    \/ \E i \in Slots, p \in Points : ColumnSetPosition(i, p)
    \/ \E i \in Slots, a \in MainAxisAlignments : ColumnSetMainAxis(i, a)
    \/ \E i \in Slots, a \in CrossAxisAlignments : ColumnSetCrossAxis(i, a)
    \/ \E i \in Slots, p \in Paddings : ColumnSetPadding(i, p)
    \/ \E c \in ConstraintSizes : Layout(c)

Spec == Init /\ [][Next]_vars

---------------------------------------------------------------------------
(***************************************************************************)
(* A program that makes Constraints values and clamps sizes with them.     *)
(***************************************************************************)
\* arguments of tight and loose
BoundValues == { Px(-5), Px(100), PosInf, NaN }
\* fields of a Constraints { .. } literal (the fields are public)
FieldValues == { Px(0), Px(100), NaN }
\* widths and heights of the sizes clamped
SizeValues == { NegInf, Px(-10), Px(50), Px(150), PosInf, NaN }

Made(c, how) ==
    /\ cons' = c
    /\ ctor' = how
    /\ csize' = Size_new(Px(0), Px(0))
    /\ cresult' = Size_new(Px(0), Px(0))
    /\ cstep' = "new"

\* cons = Constraints::tight(w, h)
Tight(w, h) ==
    /\ Made(Constraints_tight(w, h), [name |-> "tight", width |-> w, height |-> h])
    /\ UNCHANGED notConstraintVars

\* cons = Constraints::loose(w, h)
Loose(w, h) ==
    /\ Made(Constraints_loose(w, h), [name |-> "loose", width |-> w, height |-> h])
    /\ UNCHANGED notConstraintVars

\* cons = Constraints::unbounded()
Unbounded ==
    /\ Made(Constraints_unbounded, [name |-> "unbounded"])
    /\ UNCHANGED notConstraintVars

\* cons = Constraints { min_width: a, max_width: b, min_height: c, max_height: d }
Literal(a, b, c, d) ==
    /\ Made([min_width |-> a, max_width |-> b, min_height |-> c, max_height |-> d],
            [name |-> "literal"])
    /\ UNCHANGED notConstraintVars

\* cons.constrain(Size::new(w, h))
Constrain(w, h) ==
    /\ csize' = Size_new(w, h)
    /\ cresult' = Constraints_constrain(cons, Size_new(w, h))
    /\ cstep' = "constrained"
    /\ UNCHANGED <<cons, ctor, notConstraintVars>>

\* cons.constrain(r) for the r the previous constrain call returned
Reconstrain ==
    /\ cstep = "constrained"
    /\ csize' = cresult
    /\ cresult' = Constraints_constrain(cons, cresult)
    /\ cstep' = "reconstrained"
    /\ UNCHANGED <<cons, ctor, notConstraintVars>>

ConstraintsNext ==
    \/ \E w, h \in BoundValues : Tight(w, h)
    \/ \E w, h \in BoundValues : Loose(w, h)
    \/ Unbounded
    \/ \E a, b, c, d \in FieldValues : Literal(a, b, c, d)
    \/ \E w, h \in SizeValues : Constrain(w, h)
    \/ Reconstrain

SpecConstraints == Init /\ [][ConstraintsNext]_vars

---------------------------------------------------------------------------
(***************************************************************************)
(* The geometry program: it makes two Rect values and calls intersects,   *)
(* intersection and inset on them (specification SpecRect).                *)
(***************************************************************************)
RectXs == { Px(0), Px(5) }
RectWidths == { Px(0), Px(10), NaN }
RectYs == { Px(0), Px(5) }
RectHeights == { Px(0), Px(10) }
InsetAmounts == { Px(2), Px(20) }

Self(d) == IF d = "AB" THEN rectA ELSE rectB
Other(d) == IF d = "AB" THEN rectB ELSE rectA

\* a new Rect value: what was computed from the old one is gone
Forgotten ==
    /\ hit' = [d \in Directions |-> NoCall]
    /\ isect' = [d \in Directions |-> NoCall]
    /\ inset' = NoCall

\* let a = Rect::new(x, y, width, height)
NewRectA(x, y, width, height) ==
    /\ rectA' = Rect_new(x, y, width, height)
    /\ Forgotten
    /\ UNCHANGED <<rectB, notRectVars>>

\* let b = Rect::new(x, y, width, height)
NewRectB(x, y, width, height) ==
    /\ rectB' = Rect_new(x, y, width, height)
    /\ Forgotten
    /\ UNCHANGED <<rectA, notRectVars>>

\* a.intersects(&b) or b.intersects(&a)
Intersects(d) ==
    /\ hit' = [hit EXCEPT ![d] = Answered(Rect_intersects(Self(d), Other(d)))]
    /\ UNCHANGED <<rectA, rectB, isect, inset, notRectVars>>

\* a.intersection(&b) or b.intersection(&a)
Intersection(d) ==
    /\ isect' = [isect EXCEPT ![d] = Answered(Rect_intersection(Self(d), Other(d)))]
    /\ UNCHANGED <<rectA, rectB, hit, inset, notRectVars>>

\* a.inset(amount)
Inset(amount) ==
    /\ inset' = Answered([amount |-> amount, rect |-> Rect_inset(rectA, amount)])
    /\ UNCHANGED <<rectA, rectB, hit, isect, notRectVars>>

RectNext ==
    \/ \E x \in RectXs, y \in RectYs, w \in RectWidths, h \in RectHeights :
          NewRectA(x, y, w, h)
    \/ \E x \in RectXs, y \in RectYs, w \in RectWidths, h \in RectHeights :
          NewRectB(x, y, w, h)
    \/ \E d \in Directions : Intersects(d)
    \/ \E d \in Directions : Intersection(d)
    \/ \E amount \in InsetAmounts : Inset(amount)

SpecRect == Init /\ [][RectNext]_vars

---------------------------------------------------------------------------
(***************************************************************************)
(* The color program: it puts a string together from pieces and passes it *)
(* to Color::from_hex (specification SpecColor).                           *)
(***************************************************************************)
\* "#", "8f", "+F", "Fg", "é" (two bytes in UTF-8) and "a"
HexPieces == { <<35>>, <<56, 102>>, <<43, 70>>, <<70, 103>>, <<233>>, <<97>> }

\* hex.push_str(piece)
PushStr(piece) ==
    /\ typed < MaxPieces
    /\ hex' = hex \o piece
    /\ typed' = typed + 1
    /\ parsed' = NoCall
    /\ UNCHANGED notColorVars

\* Color::from_hex(&hex)
FromHex ==
    /\ parsed' = Color_from_hex(hex)
    /\ UNCHANGED <<hex, typed, notColorVars>>

ColorNext ==
    \/ \E piece \in HexPieces : PushStr(piece)
    \/ FromHex

SpecColor == Init /\ [][ColorNext]_vars

---------------------------------------------------------------------------
(***************************************************************************)
(* The ownership program: every widget it constructs gets a number (its   *)
(* allocation); a Column's children vector holds the numbers of its boxed *)
(* children.  A widget is "local" while a variable of the program owns it; *)
(* passing it by value moves it (specification SpecOwner).                 *)
(***************************************************************************)
Unborn == { w \in WidgetIds : place[w] = "unborn" }
\* the allocation the next constructor call returns
Fresh == CHOOSE w \in Unborn : \A u \in Unborn : w <= u
Locals == { w \in WidgetIds : place[w] = "local" }

\* Faulty variant of passing a widget by value: the caller keeps it.
PassedByReference(p, w) == p

\* `child: impl Widget + 'static`, `Box<dyn Widget>`: the argument is moved
\* into the callee, so the caller's variable is no longer usable
PassedByValue(p, w) == [p EXCEPT ![w] = "child"]

RECURSIVE PassedAll(_, _)
PassedAll(p, ws) == IF ws = << >> THEN p ELSE PassedAll(PassedByValue(p, Head(ws)), Tail(ws))

\* the vectors of at most two different local widgets
LocalVecs ==
    { <<w>> : w \in Locals } \cup
    { ws \in Locals \X Locals : ws[1] # ws[2] }

\* let w = Text::new("")
OwnText ==
    /\ Unborn # {}
    /\ heap' = [heap EXCEPT ![Fresh] = Text_new(<< >>)]
    /\ place' = [place EXCEPT ![Fresh] = "local"]
    /\ UNCHANGED notOwnerVars

\* let w = t.clone()   (Text is Clone, Column is not)
OwnClone(t) ==
    /\ Unborn # {} /\ t \in Locals /\ heap[t].type = "Text"
    /\ heap' = [heap EXCEPT ![Fresh] = heap[t]]
    /\ place' = [place EXCEPT ![Fresh] = "local"]
    /\ UNCHANGED notOwnerVars

\* let w = Column::new()
OwnColumn ==
    /\ Unborn # {}
    /\ heap' = [heap EXCEPT ![Fresh] = Column_new]
    /\ place' = [place EXCEPT ![Fresh] = "local"]
    /\ UNCHANGED notOwnerVars

\* let w = Column::with_children(vec![Box::new(a), ..])
OwnWithChildren(children) ==
    /\ Unborn # {}
    /\ heap' = [heap EXCEPT ![Fresh] = Column_with_children(children)]
    /\ place' = [PassedAll(place, children) EXCEPT ![Fresh] = "local"]
    /\ UNCHANGED notOwnerVars

\* let c = c.add(w)
OwnAdd(c, w) ==
    /\ c \in Locals /\ w \in Locals /\ c # w
    /\ heap[c].type = "Column"
    /\ heap' = [heap EXCEPT ![c] = Column_add(heap[c], w)]
    /\ place' = PassedByValue(place, w)
    /\ UNCHANGED notOwnerVars

\* drop(w)
OwnDrop(w) ==
    /\ w \in Locals
    /\ place' = [place EXCEPT ![w] = "dropped"]
    /\ UNCHANGED <<heap, notOwnerVars>>

OwnerNext ==
    \/ OwnText
    \/ \E t \in WidgetIds : OwnClone(t)
    \/ OwnColumn
    \/ \E children \in LocalVecs : OwnWithChildren(children)
    \/ \E c, w \in WidgetIds : OwnAdd(c, w)
    \/ \E w \in WidgetIds : OwnDrop(w)

SpecOwner == Init /\ [][OwnerNext]_vars

---------------------------------------------------------------------------
(***************************************************************************)
(* The builder-chain program: it holds one Text and one Column and calls  *)
(* builder methods on them in any order, any number of times, the way the *)
(* text! and column! macros do (specification SpecChain).                  *)
(***************************************************************************)
\* "Hi"
ChainContents == { <<72, 105>> }
\* the setters' arguments: the constructors' values and one other value each
ChainColors == Colors \cup { Text_new(<< >>).color }
ChainSizes == { Px(20), Text_new(<< >>).font_size }
ChainPoints == Points \cup { Point_zero }
ChainMainAxisAlignments == MainAxisAlignments \cup { Column_new.main_axis_alignment }
ChainCrossAxisAlignments == CrossAxisAlignments \cup { Column_new.cross_axis_alignment }
ChainPaddings == Paddings \cup { EdgeInsets_zero }

\* let text = Text::new(content)
ChainTextNew(content) ==
    /\ btext' = Text_new(content)
    /\ UNCHANGED <<bcol, notChainVars>>

\* text = text.color(color)
ChainTextColor(color) ==
    /\ btext.type = "Text"
    /\ btext' = Text_color(btext, color)
    /\ UNCHANGED <<bcol, notChainVars>>

\* text = text.size(font_size)
ChainTextSize(font_size) ==
    /\ btext.type = "Text"
    /\ btext' = Text_size(btext, font_size)
    /\ UNCHANGED <<bcol, notChainVars>>

\* text = text.position(position)
ChainTextPosition(position) ==
    /\ btext.type = "Text"
    /\ btext' = Text_position(btext, position)
    /\ UNCHANGED <<bcol, notChainVars>>

\* let col = Column::new()
ChainColumnNew ==
    /\ bcol' = Column_new
    /\ UNCHANGED <<btext, notChainVars>>

\* col = col.add(text): text is moved into col
ChainAdd ==
    /\ bcol.type = "Column" /\ btext.type = "Text"
    /\ Nodes(bcol) < MaxNodes
    /\ bcol' = Column_add(bcol, btext)
    /\ btext' = NoWidget
    /\ UNCHANGED notChainVars

\* col = col.position(position)
ChainColumnPosition(position) ==
    /\ bcol.type = "Column"
    /\ bcol' = Column_position(bcol, position)
    /\ UNCHANGED <<btext, notChainVars>>

\* col = col.main_axis_alignment(alignment)
ChainMainAxis(alignment) ==
    /\ bcol.type = "Column"
    /\ bcol' = Column_main_axis_alignment(bcol, alignment)
    /\ UNCHANGED <<btext, notChainVars>>

\* col = col.cross_axis_alignment(alignment)
ChainCrossAxis(alignment) ==
    /\ bcol.type = "Column"
    /\ bcol' = Column_cross_axis_alignment(bcol, alignment)
    /\ UNCHANGED <<btext, notChainVars>>

\* col = col.padding(padding)
ChainPadding(padding) ==
    /\ bcol.type = "Column"
    /\ bcol' = Column_padding(bcol, padding)
    /\ UNCHANGED <<btext, notChainVars>>

ChainNext ==
    \/ \E content \in ChainContents : ChainTextNew(content)
    \/ \E color \in ChainColors : ChainTextColor(color)
    \/ \E font_size \in ChainSizes : ChainTextSize(font_size)
    \/ \E position \in ChainPoints : ChainTextPosition(position)
    \/ ChainColumnNew
    \/ ChainAdd
    \/ \E position \in ChainPoints : ChainColumnPosition(position)
    \/ \E alignment \in ChainMainAxisAlignments : ChainMainAxis(alignment)
    \/ \E alignment \in ChainCrossAxisAlignments : ChainCrossAxis(alignment)
    \/ \E padding \in ChainPaddings : ChainPadding(padding)

SpecChain == Init /\ [][ChainNext]_vars

---------------------------------------------------------------------------
(***************************************************************************)
(* The notifier program: it makes a LiveData, a ValueNotifier or a        *)
(* ChangeNotifier, clones it, and calls its methods; a listener may hold a *)
(* clone and call back into the notifier.  Each thread's calls proceed in  *)
(* steps: what is done under one lock acquisition is one step, and         *)
(* notify takes its locks one after the other and invokes one listener     *)
(* per step.  std::sync::Mutex is not reentrant: lock() on a mutex the     *)
(* calling thread already holds does not return, and the std               *)
(* implementations block.  (specification SpecNotifier, one thread)        *)
(***************************************************************************)
NotifierTypes == { "LiveData", "ValueNotifier", "ChangeNotifier" }

\* the public methods; LiveData::notify and ValueNotifier::notify_listeners
\* are private, ChangeNotifier has no value
Methods(ty) ==
    IF ty = "ChangeNotifier" THEN { "observe", "notify", "clear", "count" }
    ELSE { "get", "set", "update", "observe", "clear", "count" }

\* Arc::new(Mutex::new(..)) twice: the first allocations
Notifier_new == [value |-> 1, listeners |-> 1]

\* Faulty variant of clone: the clone gets allocations of its own.
Notifier_clone_fresh(self) == [value |-> 2, listeners |-> 2]

\* Arc::clone of both fields
Notifier_clone(self) == [value |-> self.value, listeners |-> self.listeners]

\* Faulty variant of lock: the guard is dropped at once, the mutex is not held.
Mutex_lock_released(mutex, t) == "free"

\* Faulty variant of the drop of a guard: the mutex stays locked.
Mutex_unlock_held(mutex) == mutex

\* Mutex::lock by thread t on a free mutex, and the drop of its guard
Mutex_lock(mutex, t) == t
Mutex_unlock(mutex) == "free"

\* Faulty variant of *value = new_value: the old value stays.
Assign_keeps_old(old, new) == old

\* *value = new_value
Assign(old, new) == new

Vec_push(vec, x) == Append(vec, x)

\* Faulty variant of Vec::clear: the vector keeps its elements.
Vec_clear_keeps(vec) == vec

Vec_clear(vec) == << >>

\* the call thread t is executing, and the allocations it works on
Top(t) == stack[t][Len(stack[t])]
ValueCell(fr) == handle[fr.h].value
ListCell(fr) == handle[fr.h].listeners

\* where a method starts
FirstPc(op) == IF op = "notify" THEN "lock_listeners" ELSE "start"

\* t is not inside the notifier, or it runs a listener that holds a clone
CanCall(t) ==
    \/ stack[t] = << >>
    \/ /\ Len(stack[t]) = 1
       /\ Top(t).pc = "in_listener"

\* the listener lists hold Box<dyn Fn(&T)>, so a ValueNotifier is not Send
\* and stays on the thread that made it
Usable(t) == ntype = "ValueNotifier" => t = "main"

Replaced(t, fr) == [stack EXCEPT ![t] = [@ EXCEPT ![Len(@)] = fr]]
Popped(t) == [stack EXCEPT ![t] = SubSeq(@, 1, Len(@) - 1)]
Returning(t, val) ==
    [ret EXCEPT ![t] = [op |-> Top(t).op, h |-> Top(t).h, val |-> val,
                        old |-> Top(t).old, f |-> Top(t).f]]

\* let first = LiveData::new(InitialValue)  (or ValueNotifier, ChangeNotifier)
NewSteps(t, ty) ==
    /\ ntype = "None" /\ stack[t] = << >>
    /\ ntype' = ty
    /\ handle' = [handle EXCEPT !["first"] = Notifier_new]
    /\ UNCHANGED <<value, listeners, valueLock, listLock, stack, registered, live>>

\* the step, with what the last call returned left as it is
New(t, ty) ==
    /\ NewSteps(t, ty)
    /\ UNCHANGED <<calls, ret, notNotifierVars>>

\* let h2 = h.clone(), by the program or by a listener that holds h
CloneSteps(t, h, h2) ==
    /\ handle[h] # NoHandle /\ handle[h2] = NoHandle
    /\ Usable(t) /\ CanCall(t)
    /\ handle' = [handle EXCEPT ![h2] = Notifier_clone(handle[h])]
    /\ UNCHANGED <<ntype, value, listeners, valueLock, listLock, stack, registered, live>>

\* the step, with what the last call returned left as it is
Clone(t, h, h2) ==
    /\ CloneSteps(t, h, h2)
    /\ UNCHANGED <<calls, ret, notNotifierVars>>

\* thread t calls method op on notifier value h
CallSteps(t, op, h, v, f, touches) ==
    /\ handle[h] # NoHandle /\ op \in Methods(ntype)
    /\ Usable(t) /\ CanCall(t)
    /\ op = "observe" => registered < MaxListeners
    /\ stack' = [stack EXCEPT ![t] =
                    Append(@, [op |-> op, h |-> h, pc |-> FirstPc(op), v |-> v, f |-> f,
                               touches |-> touches, i |-> 0, old |-> InitialValue])]
    /\ UNCHANGED <<ntype, handle, value, listeners,
                   valueLock, listLock, registered, live>>

\* the call, and the invocations kept for the outermost call start afresh
Call(t, op, h, v, f, touches) ==
    /\ CallSteps(t, op, h, v, f, touches)
    /\ calls' = [calls EXCEPT ![t] = IF stack[t] = << >> THEN << >> ELSE @]
    /\ UNCHANGED <<ret, notNotifierVars>>

\* self.value.lock().unwrap().clone()
GetSteps(t) ==
    /\ stack[t] # << >> /\ Top(t).op = "get" /\ Top(t).pc = "start"
    /\ valueLock[ValueCell(Top(t))] = "free"
    /\ stack' = Popped(t)
    /\ UNCHANGED <<ntype, handle, value, listeners, valueLock, listLock, registered, live>>

\* the call returns and what it returned is kept
Get(t) ==
    /\ GetSteps(t)
    /\ ret' = Returning(t, value[ValueCell(Top(t))])
    /\ UNCHANGED <<calls, notNotifierVars>>

\* { let mut value = self.value.lock().unwrap(); *value = new_value; }
SetValueSteps(t) ==
    /\ stack[t] # << >> /\ Top(t).op = "set" /\ Top(t).pc = "start"
    /\ valueLock[ValueCell(Top(t))] = "free"
    /\ value' = [value EXCEPT ![ValueCell(Top(t))] = Assign(@, Top(t).v)]
    /\ stack' = Replaced(t, [Top(t) EXCEPT !.pc = "lock_value",
                                           !.old = value[ValueCell(Top(t))]])
    /\ UNCHANGED <<ntype, handle, listeners, valueLock, listLock, registered, live>>

\* the step, with what the last call returned left as it is
SetValue(t) ==
    /\ SetValueSteps(t)
    /\ UNCHANGED <<calls, ret, notNotifierVars>>

\* { let mut value = self.value.lock().unwrap(); updater(&mut *value); }
UpdateValueSteps(t) ==
    /\ stack[t] # << >> /\ Top(t).op = "update" /\ Top(t).pc = "start"
    /\ valueLock[ValueCell(Top(t))] = "free"
    /\ value' = [value EXCEPT ![ValueCell(Top(t))] = Assign(@, Top(t).f[@])]
    /\ stack' = Replaced(t, [Top(t) EXCEPT !.pc = "lock_value",
                                           !.old = value[ValueCell(Top(t))]])
    /\ UNCHANGED <<ntype, handle, listeners, valueLock, listLock, registered, live>>

\* the step, with what the last call returned left as it is
UpdateValue(t) ==
    /\ UpdateValueSteps(t)
    /\ UNCHANGED <<calls, ret, notNotifierVars>>

\* notify: let value = self.value.lock().unwrap();
NotifyLockValueSteps(t) ==
    /\ stack[t] # << >> /\ Top(t).pc = "lock_value"
    /\ valueLock[ValueCell(Top(t))] = "free"
    /\ valueLock' = [valueLock EXCEPT ![ValueCell(Top(t))] = Mutex_lock(@, t)]
    /\ stack' = Replaced(t, [Top(t) EXCEPT !.pc = "lock_listeners"])
    /\ UNCHANGED <<ntype, handle, value, listeners, listLock, registered, live>>

\* the step, with what the last call returned left as it is
NotifyLockValue(t) ==
    /\ NotifyLockValueSteps(t)
    /\ UNCHANGED <<calls, ret, notNotifierVars>>

\* notify: let listeners = self.listeners.lock().unwrap();
NotifyLockListenersSteps(t) ==
    /\ stack[t] # << >> /\ Top(t).pc = "lock_listeners"
    /\ listLock[ListCell(Top(t))] = "free"
    /\ listLock' = [listLock EXCEPT ![ListCell(Top(t))] = Mutex_lock(@, t)]
    /\ stack' = Replaced(t, [Top(t) EXCEPT !.pc = "iterate", !.i = 1])
    /\ UNCHANGED <<ntype, handle, value, listeners, valueLock, registered, live>>

\* the step, with what the last call returned left as it is
NotifyLockListeners(t) ==
    /\ NotifyLockListenersSteps(t)
    /\ UNCHANGED <<calls, ret, notNotifierVars>>

\* Faulty variant of notify: the listeners are given the value of the caller.
NotifyArg_of_caller(t) == Top(t).v

\* notify: the &*value the listeners are given, read under the value lock
NotifyArg(t) == value[ValueCell(Top(t))]

\* notify: the listener the loop has come to
NextListener(t) == listeners[ListCell(Top(t))][Top(t).i]

\* notify: listener(&*value) for the next listener of the vector; a
\* listener that holds no clone of the notifier returns at once
InvokeSteps(t) ==
    /\ stack[t] # << >> /\ Top(t).pc = "iterate"
    /\ Top(t).i <= Len(listeners[ListCell(Top(t))])
    /\ stack' = Replaced(t, IF NextListener(t).touches
                            THEN [Top(t) EXCEPT !.pc = "in_listener"]
                            ELSE [Top(t) EXCEPT !.i = @ + 1])
    /\ UNCHANGED <<ntype, handle, value, listeners,
                   valueLock, listLock, registered, live>>

\* the step, and the invocation is added to those of the outermost call
Invoke(t) ==
    /\ InvokeSteps(t)
    /\ calls' = [calls EXCEPT ![t] =
                    Append(@, [id |-> NextListener(t).id, arg |-> NotifyArg(t)])]
    /\ UNCHANGED <<ret, notNotifierVars>>

\* the running listener returns (it has no call into the notifier pending)
ListenerReturn(t) ==
    /\ stack[t] # << >> /\ Top(t).pc = "in_listener"
    /\ stack' = Replaced(t, [Top(t) EXCEPT !.pc = "iterate", !.i = @ + 1])
    /\ UNCHANGED <<ntype, handle, value, listeners, valueLock, listLock, calls, ret,
                   registered, live, notNotifierVars>>

\* notify: the loop is over, both guards are dropped, set / update / notify returns
NotifyReturnSteps(t) ==
    /\ stack[t] # << >> /\ Top(t).pc = "iterate"
    /\ Top(t).i > Len(listeners[ListCell(Top(t))])
    /\ listLock' = [listLock EXCEPT ![ListCell(Top(t))] = Mutex_unlock(@)]
    /\ valueLock' = [valueLock EXCEPT ![ValueCell(Top(t))] = Mutex_unlock(@)]
    /\ stack' = Popped(t)
    /\ UNCHANGED <<ntype, handle, value, listeners, registered, live>>

\* the call returns and what it returned is kept
NotifyReturn(t) ==
    /\ NotifyReturnSteps(t)
    /\ ret' = Returning(t, Top(t).v)
    /\ UNCHANGED <<calls, notNotifierVars>>

\* observe / add_listener: listeners.push(Box::new(observer)); listeners.len() - 1
ObserveSteps(t) ==
    /\ stack[t] # << >> /\ Top(t).op = "observe" /\ Top(t).pc = "start"
    /\ listLock[ListCell(Top(t))] = "free"
    /\ listeners' = [listeners EXCEPT ![ListCell(Top(t))] =
                        Vec_push(@, [id |-> registered + 1, touches |-> Top(t).touches,
                                     via |-> Top(t).h])]
    /\ registered' = registered + 1
    /\ live' = live \cup { registered + 1 }
    /\ stack' = Popped(t)
    /\ UNCHANGED <<ntype, handle, value, valueLock, listLock>>

\* the call returns and what it returned is kept
Observe(t) ==
    /\ ObserveSteps(t)
    /\ ret' = Returning(t, Len(listeners[ListCell(Top(t))]))
    /\ UNCHANGED <<calls, notNotifierVars>>

\* clear_observers / clear_listeners: listeners.clear()
ClearSteps(t) ==
    /\ stack[t] # << >> /\ Top(t).op = "clear" /\ Top(t).pc = "start"
    /\ listLock[ListCell(Top(t))] = "free"
    /\ listeners' = [listeners EXCEPT ![ListCell(Top(t))] = Vec_clear(@)]
    /\ live' = {}
    /\ stack' = Popped(t)
    /\ UNCHANGED <<ntype, handle, value, valueLock, listLock, registered>>

\* the call returns and what it returned is kept
Clear(t) ==
    /\ ClearSteps(t)
    /\ ret' = Returning(t, InitialValue)
    /\ UNCHANGED <<calls, notNotifierVars>>

\* observer_count / listener_count: self.listeners.lock().unwrap().len()
CountSteps(t) ==
    /\ stack[t] # << >> /\ Top(t).op = "count" /\ Top(t).pc = "start"
    /\ listLock[ListCell(Top(t))] = "free"
    /\ stack' = Popped(t)
    /\ UNCHANGED <<ntype, handle, value, listeners, valueLock, listLock, registered, live>>

\* the call returns and what it returned is kept
Count(t) ==
    /\ CountSteps(t)
    /\ ret' = Returning(t, Len(listeners[ListCell(Top(t))]))
    /\ UNCHANGED <<calls, notNotifierVars>>

\* a step of thread t inside the notifier
Step(t) ==
    \/ Get(t)
    \/ SetValue(t)
    \/ UpdateValue(t)
    \/ NotifyLockValue(t)
    \/ NotifyLockListeners(t)
    \/ Invoke(t)
    \/ ListenerReturn(t)
    \/ NotifyReturn(t)
    \/ Observe(t)
    \/ Clear(t)
    \/ Count(t)

\* the calls thread t can make
Calls(t) ==
    \/ \E h \in Handles, op \in { "get", "update", "notify", "clear", "count" } :
          \E f \in (IF op = "update" THEN Updaters ELSE { Unchanged }) :
             Call(t, op, h, InitialValue, f, FALSE)
    \/ \E h \in Handles, v \in Values : Call(t, "set", h, v, Unchanged, FALSE)
    \/ \E h \in Handles, touches \in BOOLEAN :
          Call(t, "observe", h, InitialValue, Unchanged, touches)

\* the single-threaded program
SingleThread == { "main" }

NotifierNext ==
    \/ \E t \in SingleThread, ty \in NotifierTypes : New(t, ty)
    \/ \E t \in SingleThread, h, h2 \in Handles : Clone(t, h, h2)
    \/ \E t \in SingleThread : Calls(t)
    \/ \E t \in SingleThread : Step(t)

SpecNotifier == Init /\ [][NotifierNext]_vars

---------------------------------------------------------------------------
(***************************************************************************)
(* The renderer program (specification SpecRenderer): a Renderer is made   *)
(* with a positive size and resize is called with sizes of every kind.     *)
(***************************************************************************)
\* inputs: 0.4 px is positive and becomes 0 as u32
RendererSizes == { Size_new(Px(800), Px(600)), Size_new(Fin(2), Px(600)) }
ResizeWidths == { NaN, Px(-1), Px(0), Fin(2), Px(400), PosInf }
ResizeHeights == { NaN, NegInf, Px(0), Fin(3), Px(300) }

RendererNew(size) ==
    /\ ~renderer.some
    /\ renderer' = Some(Renderer_new_with_instance(size))
    /\ UNCHANGED <<asked, textVars, runtimeVars, notRenderVars>>

RendererResize(new_size) ==
    /\ renderer.some
    /\ renderer' = Some(Renderer_resize(renderer.val, new_size))
    /\ asked' = Some(new_size)
    /\ UNCHANGED <<textVars, runtimeVars, notRenderVars>>

RendererNext ==
    \/ \E size \in RendererSizes : RendererNew(size)
    \/ \E w \in ResizeWidths, h \in ResizeHeights : RendererResize(Size_new(w, h))

SpecRenderer == Init /\ [][RendererNext]_vars

---------------------------------------------------------------------------
(***************************************************************************)
(* The text program (specification SpecText): a RealTextRenderer is made   *)
(* and prepare_text and render are called on it, with a device that        *)
(* panics on a failed call or with one whose owner takes the error.        *)
(***************************************************************************)
\* inputs: A, B and the space; 16 px, and sizes at which one glyph fills a row
\* of the atlas (1000 px) or is wider than the atlas (2000 px)
TextContents == { <<65>>, <<66>>, <<32>>, <<65, 66>> }
TextFontSizes == { Px(16), Px(1000), Px(2000) }
TextPoints == { Point_new(Px(10), Px(20)) }
Devices == { DefaultDevice, ScopedDevice }
ScreenSize == Size_new(Px(800), Px(600))

\* what one prepare_text call was given and what it built
Prepared(text, position, font_size, screen, run) ==
    [text |-> text, position |-> position, font_size |-> font_size, screen |-> screen,
     glyphs |-> run.glyphs, vertices |-> run.vertices]

Running == text_renderer.some /\ ~text_renderer.val.panicked

TextNew ==
    /\ ~text_renderer.some
    /\ text_renderer' = Some(RealTextRenderer_new)
    /\ UNCHANGED <<drawn, frame, rendererVars, runtimeVars, notRenderVars>>

PrepareText(device, text, position, font_size) ==
    /\ Running
    /\ text_renderer' =
           Some(prepare_text(text_renderer.val, device, text, position, font_size,
                             "WHITE", ScreenSize.width, ScreenSize.height))
    /\ drawn' = << Prepared(text, position, font_size, ScreenSize,
                            PrepareRun(text_renderer.val, device, text, position, font_size,
                                       "WHITE", ScreenSize.width, ScreenSize.height)) >>
    /\ UNCHANGED <<frame, rendererVars, runtimeVars, notRenderVars>>

Render ==
    /\ Running
    /\ frame' = [presented |-> TRUE, quads |-> render(text_renderer.val)]
    /\ UNCHANGED <<text_renderer, drawn, rendererVars, runtimeVars, notRenderVars>>

TextNext ==
    \/ TextNew
    \/ \E device \in Devices, text \in TextContents, position \in TextPoints,
          font_size \in TextFontSizes : PrepareText(device, text, position, font_size)
    \/ Render

SpecText == Init /\ [][TextNext]_vars

---------------------------------------------------------------------------
(***************************************************************************)
(* The runtime program (specification SpecRuntime):                        *)
(* KobaltApp::build().home(widget).run() and the window events the event   *)
(* loop delivers. CloseRequested ends the run and is not an action.        *)
(***************************************************************************)
\* inputs: the home widgets are Texts, Columns of one or two Texts, a Column
\* with a nested Column, and the empty Column
RunContents == { <<65>>, <<65, 66>>, <<32>> }
RunPoints == { Point_zero, Point_new(Px(10), Px(20)) }
RunFontSizes == { Px(16), Px(2000) }
RunTexts ==
    { Text_size(Text_position(Text_new(c), p), s) :
        c \in RunContents, p \in RunPoints, s \in RunFontSizes }
HomeWidgets ==
    RunTexts
    \cup { Column_new }
    \cup { Column_with_children(<<a>>) : a \in RunTexts }
    \cup { Column_with_children(<<a, b>>) : a \in RunTexts, b \in RunTexts }
    \cup { Column_with_children(<<Column_with_children(<<a>>), b>>) :
             a \in RunTexts, b \in { Text_new(c) : c \in RunContents } }
\* the sizes of Resized events (u32) and what get_current_texture gives
ResizedWidths == { 0, 400 }
ResizedHeights == { 0, 300 }
SurfaceResults == { "Ok", "Lost", "OutOfMemory", "Timeout" }

\* the for loop of the RedrawRequested handler over widgets_to_render:
\* run is [self, log]
RECURSIVE PrepareWidgets(_, _, _, _)
PrepareWidgets(run, device, widgets, screen_size) ==
    IF widgets = << >> \/ run.self.panicked THEN run
    ELSE LET text == Head(widgets)
             built == PrepareRun(run.self, device, text.content, text.position,
                                 text.font_size, text.color,
                                 screen_size.width, screen_size.height)
         IN PrepareWidgets(
                [self |-> PrepareEnd(built),
                 log |-> Append(run.log,
                                Prepared(text.content, text.position, text.font_size,
                                         screen_size, built))],
                device, Tail(widgets), screen_size)

Run(widget) ==
    /\ home = NoWidget
    /\ home' = widget
    /\ UNCHANGED <<trace, rendererVars, textVars, notRenderVars>>

\* resumed: the window and its renderer are made with the default size
Resumed ==
    /\ home # NoWidget
    /\ ~renderer.some
    /\ renderer' = Some(Renderer_new_with_instance(Size_new(U32AsF32(800), U32AsF32(600))))
    /\ UNCHANGED <<asked, runtimeVars, textVars, notRenderVars>>

EventLoopRuns ==
    /\ renderer.some
    /\ text_renderer.some => ~text_renderer.val.panicked

\* window_event(Resized): DesktopWindow::resize
Resized(width, height) ==
    /\ EventLoopRuns
    /\ renderer' = Some(Renderer_resize(renderer.val,
                                        Size_new(U32AsF32(width), U32AsF32(height))))
    /\ asked' = Some(Size_new(U32AsF32(width), U32AsF32(height)))
    /\ trace' = [resized |-> TRUE, calls |-> {}, presented |-> FALSE]
    /\ UNCHANGED <<home, textVars, notRenderVars>>

\* window_event(RedrawRequested): the closure of KobaltApp::run
RedrawRequested(surface) ==
    /\ EventLoopRuns
    /\ LET first == IF text_renderer.some THEN text_renderer.val ELSE RealTextRenderer_new
           screen_size == renderer.val.size
           run == PrepareWidgets([self |-> first, log |-> << >>], DefaultDevice,
                                 collect_widgets(home), screen_size)
       IN /\ text_renderer' = Some(run.self)
          /\ drawn' = run.log
          /\ trace' = [trace EXCEPT !.calls = @ \cup RedrawCalls(home),
                                    !.presented = @ \/ (~run.self.panicked /\ surface = "Ok")]
          /\ IF run.self.panicked
             THEN UNCHANGED <<frame, renderer, asked>>
             ELSE CASE surface = "Ok" ->
                         /\ frame' = [presented |-> TRUE, quads |-> render(run.self)]
                         /\ UNCHANGED <<renderer, asked>>
                    [] surface = "Lost" ->
                         /\ renderer' = Some(Renderer_resize(renderer.val, screen_size))
                         /\ asked' = Some(screen_size)
                         /\ UNCHANGED frame
                    [] OTHER -> UNCHANGED <<frame, renderer, asked>>
    /\ UNCHANGED <<home, notRenderVars>>

RuntimeNext ==
    \/ home = NoWidget /\ \E widget \in HomeWidgets : Run(widget)
    \/ Resumed
    \/ \E width \in ResizedWidths, height \in ResizedHeights : Resized(width, height)
    \/ \E surface \in SurfaceResults : RedrawRequested(surface)

SpecRuntime == Init /\ [][RuntimeNext]_vars

---------------------------------------------------------------------------
(***************************************************************************)
(* The concurrent LiveData program (specification SpecLive): the main      *)
(* thread makes a LiveData and moves a clone of it into a worker thread;   *)
(* both threads then call get, set, update, observe, clear_observers and   *)
(* observer_count in any order. The observers hold no clone of the         *)
(* LiveData: each stores the value it is given.                            *)
(***************************************************************************)
\* the LiveData value a thread owns
HandleOf(t) == IF t = "main" THEN "first" ELSE "clone"

\* what the steps below leave alone: the records of the single-threaded
\* program are not kept by this one
liveRest == <<calls, ret, notLiveVars>>

LiveNew ==
    /\ NewSteps("main", "LiveData")
    /\ UNCHANGED <<liveVars, liveRest>>

\* let clone = first.clone(); thread::spawn(move || ..)
LiveSpawn ==
    /\ CloneSteps("main", "first", "clone")
    /\ UNCHANGED <<liveVars, liveRest>>

LiveCall(t, op, v, f) ==
    /\ handle["clone"] # NoHandle
    /\ CallSteps(t, op, HandleOf(t), v, f, FALSE)
    /\ before' = [before EXCEPT ![t] = IF op \in { "set", "update" } THEN live ELSE {}]
    /\ UNCHANGED <<delivered, told, liveRest>>

LiveGet(t) == GetSteps(t) /\ UNCHANGED <<liveVars, liveRest>>
LiveSetValue(t) == SetValueSteps(t) /\ UNCHANGED <<liveVars, liveRest>>
LiveUpdateValue(t) == UpdateValueSteps(t) /\ UNCHANGED <<liveVars, liveRest>>
LiveNotifyLockValue(t) == NotifyLockValueSteps(t) /\ UNCHANGED <<liveVars, liveRest>>
LiveNotifyLockListeners(t) == NotifyLockListenersSteps(t) /\ UNCHANGED <<liveVars, liveRest>>

\* notify invokes the next observer, which stores what it is given
LiveInvoke(t) ==
    /\ InvokeSteps(t)
    /\ delivered' = [delivered EXCEPT ![NextListener(t).id] = Some(NotifyArg(t))]
    /\ told' = [told EXCEPT ![t] = @ \cup { <<NextListener(t).id, NotifyArg(t)>> }]
    /\ UNCHANGED <<before, liveRest>>

\* set / update returns: what the call was told apart is dropped with it
LiveNotifyReturn(t) ==
    /\ NotifyReturnSteps(t)
    /\ before' = [before EXCEPT ![t] = {}]
    /\ told' = [told EXCEPT ![t] = {}]
    /\ UNCHANGED <<delivered, liveRest>>

LiveObserve(t) == ObserveSteps(t) /\ UNCHANGED <<liveVars, liveRest>>
LiveClear(t) == ClearSteps(t) /\ UNCHANGED <<liveVars, liveRest>>
LiveCount(t) == CountSteps(t) /\ UNCHANGED <<liveVars, liveRest>>

\* a step of thread t inside a call
LiveRun(t) ==
    \/ LiveGet(t)
    \/ LiveSetValue(t)
    \/ LiveUpdateValue(t)
    \/ LiveNotifyLockValue(t)
    \/ LiveNotifyLockListeners(t)
    \/ LiveInvoke(t)
    \/ LiveNotifyReturn(t)
    \/ LiveObserve(t)
    \/ LiveClear(t)
    \/ LiveCount(t)

\* the calls thread t makes
LiveCalls(t) ==
    \/ \E op \in { "get", "observe", "clear", "count" } :
          LiveCall(t, op, InitialValue, Unchanged)
    \/ \E v \in Values : LiveCall(t, "set", v, Unchanged)
    \/ \E f \in Updaters : LiveCall(t, "update", InitialValue, f)

LiveNext ==
    \/ LiveNew
    \/ LiveSpawn
    \/ \E t \in Threads : LiveCalls(t)
    \/ \E t \in Threads : LiveRun(t)

SpecLive == Init /\ [][LiveNext]_vars

(***************************************************************************)
(* The same threads with observers that store nothing: the locks alone     *)
(***************************************************************************)
LockCall(t, op, v, f) ==
    /\ handle["clone"] # NoHandle
    /\ CallSteps(t, op, HandleOf(t), v, f, FALSE)
    /\ UNCHANGED <<liveVars, liveRest>>

LockInvoke(t) == InvokeSteps(t) /\ UNCHANGED <<liveVars, liveRest>>
LockNotifyReturn(t) == NotifyReturnSteps(t) /\ UNCHANGED <<liveVars, liveRest>>

\* a step of thread t inside a call
LockRun(t) ==
    \/ LiveGet(t)
    \/ LiveSetValue(t)
    \/ LiveUpdateValue(t)
    \/ LiveNotifyLockValue(t)
    \/ LiveNotifyLockListeners(t)
    \/ LockInvoke(t)
    \/ LockNotifyReturn(t)
    \/ LiveObserve(t)
    \/ LiveClear(t)
    \/ LiveCount(t)

\* the calls thread t makes
LockCalls(t) ==
    \/ \E op \in { "get", "observe", "clear", "count" } :
          LockCall(t, op, InitialValue, Unchanged)
    \/ \E v \in Values : LockCall(t, "set", v, Unchanged)
    \/ \E f \in Updaters : LockCall(t, "update", InitialValue, f)

LockNext ==
    \/ LiveNew
    \/ LiveSpawn
    \/ \E t \in Threads : LockCalls(t)
    \/ \E t \in Threads : LockRun(t)

SpecLocks == Init /\ [][LockNext]_vars

\* The scheduler runs every thread that can take a step, and a thread waiting
\* for a mutex that is unlocked again and again gets it in the end.
SpecLocksFair == SpecLocks /\ \A t \in Threads : SF_vars(LockRun(t))

---------------------------------------------------------------------------
(***************************************************************************)
(* Properties of layout and bounds (specification Spec)                    *)
(***************************************************************************)
\* the widget laid out by the most recent layout call
HomeWidget == slot[Home]
LaidOut == lastTarget = Home /\ outcome.kind # "none"

\* the smaller of two f32 values, the other one when one is NaN
Smaller(a, b) ==
    IF FLe(a, b) THEN a ELSE IF FLe(b, a) THEN b ELSE IF IsNaN(a) THEN b ELSE a

\* the left-to-right sum of a sequence of f32 values
RECURSIVE SumLeft(_, _)
SumLeft(acc, s) == IF s = << >> THEN acc ELSE SumLeft(FAdd(acc, Head(s)), Tail(s))

\* what each child of col returns for layout(c)
ChildOutcomes(col, c) ==
    [i \in 1..Len(col.children) |-> Widget_layout(col.children[i], c)]

\* C1: Column.layout lays out every child with the incoming constraints and
\* returns Size(max of the children's widths, sum of the children's
\* heights), (0, 0) without children, not clamped to the constraints.
C1_ColumnLayoutIsMaxAndSum ==
    (LaidOut /\ HomeWidget.type = "Column") =>
        LET outs == ChildOutcomes(HomeWidget, lastC)
            n == Len(outs)
        IN /\ outcome.kind = "size"
           /\ \A i \in 1..n : outs[i].kind = "size"
           /\ outcome.size.height = SumLeft(Px(0), [i \in 1..n |-> outs[i].size.height])
           /\ IF n = 0 THEN outcome.size.width = Px(0)
              ELSE /\ \E i \in 1..n : outs[i].size.width = outcome.size.width
                   /\ \A i \in 1..n : ~FGt(outs[i].size.width, outcome.size.width)

\* the size C2 states for Text t under constraints c
ClampedEstimate(t, c) ==
    LET n == StrLen(t.content)
        f == t.font_size
    IN Size_new(Smaller(FTimesCount(n, FTimesRatio(f, 3, 5)), c.width),
                Smaller(FTimesRatio(f, 6, 5), c.height))

C3_LayoutNeverPanics == ~aborted /\ outcome.kind # "panic"

\* C4: when the incoming width or height is zero or negative, the size
\* layout returns has no negative dimension and has area zero.
C4_EmptyConstraintsGiveZeroArea ==
    (/\ LaidOut /\ outcome.kind = "size"
     /\ (FLe(lastC.width, Px(0)) \/ FLe(lastC.height, Px(0)))) =>
        /\ FLe(Px(0), outcome.size.width)
        /\ FLe(Px(0), outcome.size.height)
        /\ (outcome.size.width = Px(0) \/ outcome.size.height = Px(0))

C7_BoundsFollowLayout ==
    \A i \in Slots :
        slot[i] # NoWidget =>
            IF ~ran[i] THEN Widget_bounds(slot[i]) = None
            ELSE (lastTarget = i /\ outcome.kind = "size") =>
                     Widget_bounds(slot[i])
                         = Some(Rect_new(slot[i].position.x, slot[i].position.y,
                                         outcome.size.width, outcome.size.height))

\* the values the four configuration fields of a Column range over
AllPoints == Points \cup { Point_zero }
AllMainAxisAlignments == MainAxisAlignments \cup { "Start" }
AllCrossAxisAlignments == CrossAxisAlignments \cup { "Start" }
AllPaddings == Paddings \cup { EdgeInsets_zero }

\* C8: Column.layout does not depend on position, alignments or padding:
\* a Column with the same children and any other values of these fields
\* returns what the Column laid out returned.
C8_ColumnLayoutIgnoresConfiguration ==
    (LaidOut /\ HomeWidget.type = "Column") =>
        \A p \in AllPoints, m \in AllMainAxisAlignments,
           x \in AllCrossAxisAlignments, pad \in AllPaddings :
            Widget_layout([HomeWidget EXCEPT !.position = p,
                                             !.main_axis_alignment = m,
                                             !.cross_axis_alignment = x,
                                             !.padding = pad], lastC) = outcome

\* a padded Column with a child has been laid out
C8_Witness ==
    /\ LaidOut /\ HomeWidget.type = "Column"
    /\ HomeWidget.padding # EdgeInsets_zero
    /\ Len(HomeWidget.children) > 0
    /\ outcome.kind = "size" /\ FLt(Px(0), outcome.size.width)

---------------------------------------------------------------------------
(***************************************************************************)
(* Properties of Constraints (specification SpecConstraints)               *)
(***************************************************************************)
\* value v clamped into [lo, hi], as C9 states it
ClampedAsStated(v, lo, hi, r) ==
    /\ (FLe(lo, v) /\ FLe(v, hi)) => r = v
    /\ FLt(v, lo) => r = lo
    /\ FGt(v, hi) => r = hi
    /\ FLe(lo, r) /\ FLe(r, hi)

\* C9: with min <= max on both axes, constrain(s) is s where s lies in
\* [min, max], min below it and max above it; the result lies in [min, max]
\* and constrain is idempotent.
C9_ConstrainClamps ==
    (/\ cstep # "new"
     /\ FLe(cons.min_width, cons.max_width)
     /\ FLe(cons.min_height, cons.max_height)) =>
        /\ ClampedAsStated(csize.width, cons.min_width, cons.max_width, cresult.width)
        /\ ClampedAsStated(csize.height, cons.min_height, cons.max_height, cresult.height)
        /\ Constraints_constrain(cons, cresult) = cresult
        /\ cstep = "reconstrained" => cresult = csize

\* loose(100, 100) has clamped (150, -10) to (100, 0), and again to itself
C9_Witness ==
    /\ cstep = "reconstrained"
    /\ cons = [min_width |-> Px(0), max_width |-> Px(100),
               min_height |-> Px(0), max_height |-> Px(100)]
    /\ cresult = Size_new(Px(100), Px(0))

\* C10 as stated: for all w, h and every finite s, tight(w, h).constrain(s)
\* is Size(w, h), and tight sets both bounds of each axis to w and h.
C10_TightConstrainIsExact ==
    /\ ctor.name = "tight" =>
           cons = [min_width |-> ctor.width, max_width |-> ctor.width,
                   min_height |-> ctor.height, max_height |-> ctor.height]
    /\ (/\ ctor.name = "tight" /\ cstep = "constrained"
        /\ IsFinite(csize.width) /\ IsFinite(csize.height)) =>
           cresult = Size_new(ctor.width, ctor.height)

\* C10 amended: the same for all w, h that are not NaN.
C10_TightConstrainIsExactUnlessNaN ==
    /\ ctor.name = "tight" =>
           cons = [min_width |-> ctor.width, max_width |-> ctor.width,
                   min_height |-> ctor.height, max_height |-> ctor.height]
    /\ (/\ ctor.name = "tight" /\ cstep = "constrained"
        /\ ~IsNaN(ctor.width) /\ ~IsNaN(ctor.height)
        /\ IsFinite(csize.width) /\ IsFinite(csize.height)) =>
           cresult = Size_new(ctor.width, ctor.height)

\* tight(100, -5) has clamped (50, 150) to (100, -5)
C10_Witness ==
    /\ ctor = [name |-> "tight", width |-> Px(100), height |-> Px(-5)]
    /\ cstep = "constrained"
    /\ csize = Size_new(Px(50), Px(150))
    /\ cresult = Size_new(Px(100), Px(-5))

---------------------------------------------------------------------------
(***************************************************************************)
(* Properties of Rect (specification SpecRect)                             *)
(***************************************************************************)
MaxLeft(a, b) == FMax(a.x, b.x)
MaxTop(a, b) == FMax(a.y, b.y)
MinRight(a, b) == FMin(Rect_right(a), Rect_right(b))
MinBottom(a, b) == FMin(Rect_bottom(a), Rect_bottom(b))

\* C11: A.intersects(B) equals B.intersects(A); A.intersection(B) is None
\* exactly when A.intersects(B) is false; and when it is Some, it is the
\* rectangle from (max of the lefts, max of the tops) to (min of the
\* rights, min of the bottoms).
C11_IntersectionAgreesWithIntersects ==
    /\ (hit["AB"].kind = "value" /\ hit["BA"].kind = "value")
          => hit["AB"].value = hit["BA"].value
    /\ \A d \in Directions :
          (hit[d].kind = "value" /\ isect[d].kind = "value")
             => ((isect[d].value = None) <=> ~hit[d].value)
    /\ \A d \in Directions :
          (isect[d].kind = "value" /\ isect[d].value.some)
             => LET r == isect[d].value.val
                IN /\ r.x = MaxLeft(Self(d), Other(d))
                   /\ r.y = MaxTop(Self(d), Other(d))
                   /\ Rect_right(r) = MinRight(Self(d), Other(d))
                   /\ Rect_bottom(r) = MinBottom(Self(d), Other(d))

\* Two different overlapping rectangles have been intersected in both
\* directions, and intersects has been called on them in both directions.
C11_Witness ==
    /\ rectA = Rect_new(Px(0), Px(0), Px(10), Px(10))
    /\ rectB = Rect_new(Px(5), Px(5), Px(10), Px(10))
    /\ hit["AB"] = Answered(TRUE) /\ hit["BA"] = Answered(TRUE)
    /\ isect["AB"] = Answered(Some(Rect_new(Px(5), Px(5), Px(5), Px(5))))
    /\ isect["BA"] = isect["AB"]

NonNegativeSize(r) == FLe(Px(0), r.width) /\ FLe(Px(0), r.height)

\* C12: for rectangles A and B of non-negative width and height whose
\* common region has zero width or zero height (max of the lefts >= min of
\* the rights, or max of the tops >= min of the bottoms), A.intersects(B)
\* is false and A.intersection(B) is None.
C12_ZeroAreaOverlapNeverIntersects ==
    \A d \in Directions :
        LET a == Self(d)
            b == Other(d)
        IN (/\ NonNegativeSize(a) /\ NonNegativeSize(b)
            /\ \/ FLe(MinRight(a, b), MaxLeft(a, b))
               \/ FLe(MinBottom(a, b), MaxTop(a, b)))
              => /\ hit[d].kind = "value" => ~hit[d].value
                 /\ isect[d].kind = "value" => isect[d].value = None

\* C13: for every Rect r and every amount a >= 0, r.inset(a) has width >= 0
\* and height >= 0 and lies inside r: its left and top are not before r's,
\* its right and bottom are not past r's.
C13_InsetStaysInside ==
    (inset.kind = "value" /\ FLe(Px(0), inset.value.amount))
       => LET s == inset.value.rect
          IN /\ FLe(Px(0), s.width) /\ FLe(Px(0), s.height)
             /\ FLe(rectA.x, s.x) /\ FLe(rectA.y, s.y)
             /\ FLe(Rect_right(s), Rect_right(rectA))
             /\ FLe(Rect_bottom(s), Rect_bottom(rectA))

---------------------------------------------------------------------------
(***************************************************************************)
(* Properties of Color::from_hex (specification SpecColor)                 *)
(***************************************************************************)
\* s without one optional leading '#'
WithoutOneHash(s) == IF s # << >> /\ Head(s) = 35 THEN Tail(s) ELSE s

\* after one optional leading '#', exactly 6 or exactly 8 hexadecimal digits
WellFormedHex(s) ==
    /\ Len(WithoutOneHash(s)) \in {6, 8}
    /\ \A i \in 1..Len(WithoutOneHash(s)) : HexDigit(WithoutOneHash(s)[i]) >= 0

\* C14: Color::from_hex returns an error value, and never panics, for every
\* string that, after one optional leading '#', is not exactly 6 or exactly
\* 8 hexadecimal digits; strings of exactly 6 or 8 hex digits are accepted,
\* a missing alpha giving a fully opaque color.
C14_FromHexRejectsMalformed ==
    parsed.kind # "none"
       => IF WellFormedHex(hex)
          THEN /\ parsed.kind = "ok"
               /\ Len(WithoutOneHash(hex)) = 6 => parsed.val.a.num = parsed.val.a.den
          ELSE parsed.kind = "err"

---------------------------------------------------------------------------
(***************************************************************************)
(* Properties of widget ownership (specification SpecOwner)                *)
(***************************************************************************)
\* the places (Column, index) where w is a child
ChildSlots(w) ==
    { <<c, i>> \in WidgetIds \X (1..MaxWidgets) :
        /\ heap[c].type = "Column"
        /\ i <= Len(heap[c].children)
        /\ heap[c].children[i] = w }

ParentsOf(w) == { cs[1] : cs \in ChildSlots(w) }

\* the ancestors of w at most n levels up
RECURSIVE AncestorsWithin(_, _)
AncestorsWithin(w, n) ==
    IF n = 0 THEN {}
    ELSE ParentsOf(w) \cup UNION { AncestorsWithin(p, n - 1) : p \in ParentsOf(w) }

\* C15: the widgets form a strict forest: every widget has at most one
\* parent Column (and is in its children once), no widget is its own
\* ancestor, and a widget that has been added to a Column is no longer
\* available to be added to another Column or to the same one again.
C15_WidgetsFormAForest ==
    \A w \in WidgetIds :
        /\ Cardinality(ChildSlots(w)) <= 1
        /\ w \notin AncestorsWithin(w, MaxWidgets)
        /\ ChildSlots(w) # {} => w \notin Locals

\* A Column holding a Column that holds a Text, next to a Column that is
\* still local: the Text cannot be added to it.
C15_Witness ==
    \E a, b, t, c \in WidgetIds :
        /\ ParentsOf(t) = {b} /\ ParentsOf(b) = {a} /\ ParentsOf(a) = {}
        /\ heap[t].type = "Text"
        /\ c \in Locals /\ a \in Locals /\ heap[c].type = "Column" /\ c # a
        /\ ~ENABLED OwnAdd(c, t)

---------------------------------------------------------------------------
(***************************************************************************)
(* Properties of the builder methods (specification SpecChain)             *)
(***************************************************************************)
\* new is old with field set to v and every other field as it was
OnlyFieldSet(old, new, field, v) ==
    /\ DOMAIN new = DOMAIN old
    /\ new[field] = v
    /\ \A g \in DOMAIN old \ {field} : new[g] = old[g]

\* C16: every builder call changes exactly its own field: add appends the
\* widget as the last child and keeps the children before it in order, and
\* position, the alignments and padding as they were; the Column setters
\* and Text.color / size / position set the named field and leave every
\* other field (the children and the content included) as it was.
C16_BuilderCallsSetOneField ==
    [][ /\ ChainAdd =>
              /\ Len(bcol'.children) = Len(bcol.children) + 1
              /\ bcol'.children[Len(bcol'.children)] = btext
              /\ \A i \in 1..Len(bcol.children) : bcol'.children[i] = bcol.children[i]
              /\ OnlyFieldSet(bcol, bcol', "children", bcol'.children)
        /\ \A p \in ChainPoints :
              ChainColumnPosition(p) => OnlyFieldSet(bcol, bcol', "position", p)
        /\ \A a \in ChainMainAxisAlignments :
              ChainMainAxis(a) => OnlyFieldSet(bcol, bcol', "main_axis_alignment", a)
        /\ \A a \in ChainCrossAxisAlignments :
              ChainCrossAxis(a) => OnlyFieldSet(bcol, bcol', "cross_axis_alignment", a)
        /\ \A p \in ChainPaddings :
              ChainPadding(p) => OnlyFieldSet(bcol, bcol', "padding", p)
        /\ \A c \in ChainColors :
              ChainTextColor(c) => OnlyFieldSet(btext, btext', "color", c)
        /\ \A s \in ChainSizes :
              ChainTextSize(s) => OnlyFieldSet(btext, btext', "font_size", s)
        /\ \A p \in ChainPoints :
              ChainTextPosition(p) => OnlyFieldSet(btext, btext', "position", p)
      ]_vars

\* After several setter calls, some repeated, the Column has every field
\* away from its default and two children that differ, and a third Text
\* has been configured.
C16_Witness ==
    /\ bcol.type = "Column" /\ Len(bcol.children) = 2
    /\ bcol.children[1] # bcol.children[2]
    /\ bcol.position # Point_zero
    /\ bcol.main_axis_alignment # Column_new.main_axis_alignment
    /\ bcol.cross_axis_alignment # Column_new.cross_axis_alignment
    /\ bcol.padding # EdgeInsets_zero
    /\ btext.type = "Text" /\ btext.color # Text_new(<< >>).color
    /\ btext.position # Point_zero

---------------------------------------------------------------------------
(***************************************************************************)
(* Properties of the notifiers (specification SpecNotifier)                *)
(***************************************************************************)
\* thread t is in the listener loop of notify
Invoking(t) == stack[t] # << >> /\ stack[t][1].pc \in { "iterate", "in_listener" }

\* t holds the locks of the notifier its outermost call works on
HoldsItsLocks(t) ==
    /\ listLock[ListCell(stack[t][1])] = t
    /\ ntype # "ChangeNotifier" => valueLock[ValueCell(stack[t][1])] = t

\* a listener run by t has called back into the notifier
Reentered(t) == Len(stack[t]) = 2

\* the call made by the listener has not got past its first lock(), and the
\* mutex it needs is held by t itself
WaitsForItself(t) ==
    /\ stack[t][2].pc = FirstPc(stack[t][2].op)
    /\ IF stack[t][2].op \in { "get", "set", "update" }
       THEN valueLock[ValueCell(stack[t][2])] = t
       ELSE listLock[ListCell(stack[t][2])] = t

\* C17: listeners are invoked on the caller's thread while the notifier's
\* locks are held, and a listener that re-enters the notifier (set, update,
\* get, observe / add_listener, clear, count or notify) blocks forever: the
\* thread has no step left and the outer set / update / notify never returns.
C17_ReentrantListenerBlocksForever ==
    [][ \A t \in Threads :
          /\ Invoking(t) => HoldsItsLocks(t)
          /\ Invoking(t)' => HoldsItsLocks(t)'
          /\ calls'[t] # calls[t] /\ calls'[t] # << >> => Invoking(t) /\ Invoking(t)'
          /\ Reentered(t)' => WaitsForItself(t)' /\ ~(ENABLED Step(t))'
          /\ Reentered(t) => stack'[t] = stack[t] /\ ret'[t] = ret[t]
      ]_vars

\* The first of two listeners has called get from inside set: the second
\* listener of the vector is never reached.
C17_Witness ==
    /\ Reentered("main")
    /\ stack["main"][1].op = "set" /\ stack["main"][2].op = "get"
    /\ Len(listeners[ListCell(stack["main"][1])]) = 2
    /\ Len(calls["main"]) = 1

\* what get() through h returns in the current state
GetReturns(h) == value[handle[h].value]

\* thread t is outside the notifier and the call it completed last is one of ops
JustReturned(t, ops) == stack[t] = << >> /\ ret[t].op \in ops

\* the value a completed set(v) / update(f) has stored
NewValue(r) == IF r.op = "set" THEN r.val ELSE r.f[r.old]

\* C18: in a single-threaded run, when set(v) or update(f) returns, get()
\* returns the new value (v, or f applied to the old value) and every
\* registered observer has been invoked exactly once during the call, in
\* registration order, with the new value; get alone invokes no observer.
C18_SetNotifiesEveryObserverOnce ==
    \A t \in SingleThread :
        /\ JustReturned(t, { "set", "update" }) =>
              /\ GetReturns(ret[t].h) = NewValue(ret[t])
              /\ Len(calls[t]) = Len(listeners[handle[ret[t].h].listeners])
              /\ \A i \in 1..Len(calls[t]) :
                    /\ calls[t][i].id = listeners[handle[ret[t].h].listeners][i].id
                    /\ calls[t][i].arg = NewValue(ret[t])
              /\ \A i, j \in 1..Len(calls[t]) : i < j => calls[t][i].id < calls[t][j].id
        /\ JustReturned(t, { "get" }) =>
              /\ calls[t] = << >>
              /\ ret[t].val = GetReturns(ret[t].h)

\* update(f) has returned with two observers registered; both were told the
\* new value, which differs from the old one.
C18_Witness ==
    /\ JustReturned("main", { "update" })
    /\ ntype = "LiveData"
    /\ Len(calls["main"]) = 2
    /\ NewValue(ret["main"]) # ret["main"].old
    /\ calls["main"][2].arg = NewValue(ret["main"])

\* C19: the observer / listener count equals the number of listeners added
\* since the most recent clear (0 initially and right after a clear), and a
\* listener registered before a clear is never invoked by a set, update or
\* notify made after that clear.
C19_ClearForgetsEveryListener ==
    [][ \A t \in Threads :
          /\ Count(t) => ret'[t].val = Cardinality(live)
          /\ Clear(t) => \A c \in Cells : handle[Top(t).h].listeners = c => listeners'[c] = << >>
          /\ Invoke(t) => calls'[t][Len(calls'[t])].id \in live
      ]_vars

\* After observe, clear, observe, the count is 1: the first listener is gone.
C19_Witness ==
    /\ JustReturned("main", { "count" })
    /\ registered = 2 /\ live = { 2 }
    /\ ret["main"].val = 1

Existing == { h \in Handles : handle[h] # NoHandle }

\* C20: all clones share one value and one listener list: get() returns the
\* same value on every clone, every clone reports the same listener count,
\* and a listener added through one clone is invoked by a set or notify
\* made through any other clone.
C20_ClonesShareValueAndListeners ==
    /\ \A h1, h2 \in Existing :
          /\ GetReturns(h1) = GetReturns(h2)
          /\ Len(listeners[handle[h1].listeners]) = Len(listeners[handle[h2].listeners])
    /\ \A t \in Threads :
          JustReturned(t, { "set", "update", "notify" }) =>
             \A id \in live : \E i \in 1..Len(calls[t]) : calls[t][i].id = id

\* A listener added through the clone has been invoked by a set made
\* through the first value, which changed what get() returns through both.
C20_Witness ==
    /\ Existing = Handles
    /\ JustReturned("main", { "set" }) /\ ret["main"].h = "first"
    /\ ret["main"].val # ret["main"].old
    /\ GetReturns("clone") = ret["main"].val
    /\ Len(calls["main"]) = 1
    /\ listeners[handle["clone"].listeners][1].via = "clone"

---------------------------------------------------------------------------
(***************************************************************************)
(* Properties of the runtime (specification SpecRuntime)                   *)
(***************************************************************************)
\* C21: when a frame has been presented since the most recent window
\* Resized event, layout has been called on the home widget since that
\* event: the resize triggers a layout pass before the next frame is drawn.
C21_ResizeRunsLayoutBeforeNextFrame ==
    (trace.resized /\ trace.presented) => "layout" \in trace.calls

\* a Column whose children are Text widgets
FlatColumn(w) == w.type = "Column" /\ \A i \in 1..Len(w.children) : w.children[i].type = "Text"

\* the heights layout gives the children of col under the root constraints
LaidOutHeights(col, screen) ==
    [i \in 1..Len(col.children) |-> Widget_layout(col.children[i], screen).size.height]

\* where child i of col belongs: below the children before it
LaidOutOrigin(col, i, screen) ==
    Point_new(col.position.x,
              FAdd(col.position.y, FSum(SubSeq(LaidOutHeights(col, screen), 1, i - 1))))

\* C22: when the home widget is a Column of Texts, the draw command of child i
\* is positioned at the Column's position moved down by the laid-out heights
\* of the children before it, so that two children of non-zero height are
\* never drawn at the same origin.
C22_ChildrenDrawnAtLaidOutOffsets ==
    (FlatColumn(home) /\ Len(drawn) = Len(home.children)) =>
        /\ \A i \in 1..Len(drawn) :
               drawn[i].position = LaidOutOrigin(home, i, drawn[i].screen)
        /\ \A i, j \in 1..Len(drawn) :
               (/\ i # j
                /\ LaidOutHeights(home, drawn[i].screen)[i] # Px(0)
                /\ LaidOutHeights(home, drawn[j].screen)[j] # Px(0))
               => drawn[i].position # drawn[j].position

\* the vertices of all prepare_text calls of a frame, in order
RECURSIVE AllVertices(_)
AllVertices(log) ==
    IF log = << >> THEN << >> ELSE Head(log).vertices \o AllVertices(Tail(log))

\* C26: a RedrawRequested that presents a frame draws the glyph quads of every
\* Text reachable from the home widget, in the order of collect_widgets, and
\* nothing else.
C26_FrameHoldsEveryTextOfHome ==
    [][(RedrawRequested("Ok") /\ ~text_renderer'.val.panicked)
           => frame'.quads = AllVertices(drawn')]_vars

---------------------------------------------------------------------------
(***************************************************************************)
(* Properties of the text renderer (specification SpecText)                *)
(***************************************************************************)
\* the glyph has the metrics of the rasterized character
HasMetrics(glyph, metrics) ==
    /\ glyph.width = metrics.width
    /\ glyph.height = metrics.height
    /\ glyph.bearing_x = metrics.xmin
    /\ glyph.bearing_y = metrics.ymin
    /\ glyph.advance = metrics.advance_width

\* C27: the glyph rasterize_glyph returns for (ch, font_size) has the metrics
\* of ch rasterized at font_size, whatever was rasterized before.
C27_GlyphHasMetricsOfRequestedSize ==
    \A n \in 1..Len(drawn) :
        \A i \in 1..Len(drawn[n].glyphs) :
            HasMetrics(drawn[n].glyphs[i],
                       Font_rasterize(drawn[n].text[i], drawn[n].font_size))

InsideAtlas(self, glyph) ==
    /\ glyph.atlas_x + glyph.width <= self.atlas_width
    /\ glyph.atlas_y + glyph.height <= self.atlas_height

Overlap(g, h) ==
    /\ g.atlas_x < h.atlas_x + h.width /\ h.atlas_x < g.atlas_x + g.width
    /\ g.atlas_y < h.atlas_y + h.height /\ h.atlas_y < g.atlas_y + g.height

\* C28: every cached glyph lies inside the atlas, and the rectangles of two
\* cached glyphs of non-zero area do not overlap.
C28_CachedGlyphsLieApartInsideAtlas ==
    text_renderer.some =>
        LET self == text_renderer.val
            cache == self.glyph_cache
        IN /\ \A ch \in DOMAIN cache : InsideAtlas(self, cache[ch])
           /\ \A c, d \in DOMAIN cache :
                  (/\ c # d
                   /\ cache[c].width * cache[c].height > 0
                   /\ cache[d].width * cache[d].height > 0)
                  => ~Overlap(cache[c], cache[d])

---------------------------------------------------------------------------
(***************************************************************************)
(* Properties of the renderer (specification SpecRenderer)                 *)
(***************************************************************************)
Positive(size) == FGt(size.width, Px(0)) /\ FGt(size.height, Px(0))
NonPositive(size) == FLe(size.width, Px(0)) \/ FLe(size.height, Px(0))

\* n is f with its fraction dropped; infinity gives u32::MAX
TruncatedTo(f, n) ==
    IF IsFinite(f) THEN n * 5 <= f.v /\ f.v < (n + 1) * 5
    ELSE n = -1

\* C29: every step leaves a renderer whose size is positive and whose surface
\* configuration is that size truncated to integers, and a resize to a size
\* with a width or height <= 0 changes nothing.
C29_ResizeKeepsAPositiveSize ==
    [][renderer'.some =>
          /\ Positive(renderer'.val.size)
          /\ TruncatedTo(renderer'.val.size.width, renderer'.val.config.width)
          /\ TruncatedTo(renderer'.val.size.height, renderer'.val.config.height)
          /\ \A w \in ResizeWidths, h \in ResizeHeights :
                 (RendererResize(Size_new(w, h)) /\ NonPositive(Size_new(w, h)))
                 => renderer' = renderer]_vars

\* a resize to 400 x 300 was taken and one to 0 x 300 was then left aside
C29_Witness ==
    /\ renderer.some
    /\ renderer.val.size = Size_new(Px(400), Px(300))
    /\ renderer.val.config = [width |-> 400, height |-> 300]
    /\ asked = Some(Size_new(Px(0), Px(300)))

---------------------------------------------------------------------------
(***************************************************************************)
(* Properties of a LiveData shared by threads (specification SpecLive)     *)
(***************************************************************************)
InCall(t) == stack[t] # << >>
Writing(t) == InCall(t) /\ Top(t).op \in { "set", "update" }

\* notify of thread t has invoked every listener and holds both guards still
RoundOver(t) ==
    /\ InCall(t) /\ Top(t).pc = "iterate"
    /\ Top(t).i > Len(listeners[ListCell(Top(t))])

\* the values the observers were given in the round of thread t
ValuesTold(t) == { p[2] : p \in told[t] }

\* C23: when set(v) is about to return, every observer that was registered
\* before the call and is registered still was invoked with v during the call.
C23_SetReachesEveryObserver ==
    \A t \in Threads :
        (RoundOver(t) /\ Top(t).op = "set")
        => \A id \in before[t] \cap live : <<id, Top(t).v>> \in told[t]

\* every set / update has returned or has finished its round
Settled == \A t \in Threads : Writing(t) => RoundOver(t)

\* C24: once every set / update has finished its round, the value each
\* registered observer stored last is the value get() returns; and the observers
\* of one round are all given the same value.
C24_ObserversEndWithTheStoredValue ==
    /\ Settled =>
          \A id \in live :
              delivered[id] # None => delivered[id] = Some(value[handle["first"].value])
    /\ \A t \in Threads : Cardinality(ValuesTold(t)) <= 1

\* the worker has returned, and the round of main's set(1) gave both observers
\* the 0 that the worker wrote after main's write
C24_Witness ==
    /\ ~InCall("worker")
    /\ RoundOver("main") /\ Top("main").op = "set" /\ Top("main").v = 1
    /\ live = { 1, 2 }
    /\ told["main"] = { <<1, 0>>, <<2, 0>> }
    /\ delivered = [id \in ObserverIds |-> IF id \in live THEN Some(0) ELSE None]
    /\ value[handle["first"].value] = 0

\* a thread holds the listener lock over a step only inside notify, where it
\* took the value lock first
LockOrder ==
    \A t \in Threads :
        listLock[handle["first"].listeners] = t => valueLock[handle["first"].value] = t

===========================================================================
